---- MODULE Spec2Model ----
(***************************************************************************)
(* Model of PG_Profile_Parser: the HTML -> Excel converter                 *)
(* (parse_html_to_excel.py) and the Excel -> Markdown analyzer             *)
(* (analyze_db_report.py).                                                 *)
(*                                                                         *)
(* Texts are sequences of one-character strings.  Each part of the program *)
(* has its own specification over the shared variables:                    *)
(*   SpecScan    extract_data_from_html, the JSON-span scanner             *)
(*   SpecReport  one call of process_excel_file on one workbook            *)
(*   SpecBatch   main of either program over a list of arguments           *)
(***************************************************************************)
EXTENDS Integers, Sequences, FiniteSets, TLC

(***************************************************************************)
(* Bounds of the model.                                                    *)
(***************************************************************************)
MaxStrToks == 1
MaxDepth == 1
MaxTrail == 1
MaxAbsent == 2          \* columns absent from one sheet
MaxTableRows == 2       \* rows of 'top_tables'
MaxMinutes == 2         \* length of the monitoring period
MaxArgs == 2            \* arguments of main
MaxDatasets == 2        \* datasets of a decoded object

VARIABLES
    content,        \* extract_data_from_html: the text read from the file
    inputObj,       \* the JSON object the text was built around (<<>>: none)
    spc,            \* position in extract_data_from_html
    start_idx,      \* 0-based index, as in the source
    idx,            \* loop variable i of the scanner
    brace_count,
    in_string,
    escape_next,
    end_idx,
    data_str,       \* content[start_idx:end_idx]
    xlsx,           \* the input workbooks on disk, by file name
    reports,        \* the report files on disk, by input file name
    cur,            \* the file process_excel_file was called with
    ppc,            \* position in process_excel_file
    sheet_names,    \* xl_file.sheet_names
    loadi,          \* position of load_data's loop in sheet_names
    sheets,         \* analyzer.sheets
    metrics,        \* the locals of generate_markdown_report
    pending,        \* an exception is propagating out of the with-block
    html,           \* the input HTML files on disk, by file name
    outbooks,       \* the .xlsx files save_to_excel writes, by input file name
    hpc,            \* position in process_html_file
    data,           \* the decoded JSON object
    di,             \* position of save_to_excel's loop in data['datasets']
    book,           \* the sheets of the ExcelWriter's workbook
    tool,           \* which program runs: "excel" or "html"
    argv,           \* args.files
    mpc,            \* position in main
    ai,             \* position of main's loop in args.files
    files_to_process,
    fi,             \* position of main's loop in files_to_process
    success_count,
    failed_count,
    console,        \* what main printed: warnings, the error, the tally
    processed,      \* the process_*_file calls made, with their results
    open,           \* the handles that are open
    ret             \* what the last process_*_file call returned

scanVars == <<content, inputObj, spc, start_idx, idx, brace_count, in_string,
              escape_next, end_idx, data_str>>

xlVars == <<xlsx, reports, cur, ppc, sheet_names, loadi, sheets, metrics, pending>>

htmlVars == <<html, outbooks, hpc, data, di, book>>

mainVars == <<tool, argv, mpc, ai, files_to_process, fi, success_count, failed_count,
              console, processed>>

vars == <<scanVars, xlVars, htmlVars, mainVars, open, ret>>

\* what the steps of the scanner, of process_excel_file and of
\* process_html_file leave alone
scanFrame == <<xlVars, htmlVars, mainVars, open, ret>>
xlFrame == <<scanVars, htmlVars, mainVars>>
htmlFrame == <<scanVars, xlVars, mainVars>>

(***************************************************************************)
(* Texts                                                                   *)
(***************************************************************************)
DQ == "\""
BS == "\\"

\* start_marker = 'const data='
start_marker == <<"c", "o", "n", "s", "t", " ", "d", "a", "t", "a", "=">>

\* s[a:b] of Python for 0 <= a, b <= len(s): the characters with 0-based
\* index a .. b-1 (empty when b <= a).
Slice(s, a, b) == IF b <= a THEN <<>> ELSE SubSeq(s, a + 1, b)

\* str.find: the lowest 0-based index where sub occurs in s, or -1.
Find(s, sub) ==
    LET hits == { k \in 0..(Len(s) - Len(sub)) : Slice(s, k, k + Len(sub)) = sub }
    IN  IF hits = {} THEN -1 ELSE CHOOSE k \in hits : \A m \in hits : k <= m

(***************************************************************************)
(* Well-formed JSON objects over a small alphabet (RFC 8259 grammar,       *)
(* without insignificant whitespace): the inputs of the scanner.           *)
(***************************************************************************)
\* one character of a string literal: a plain character, a brace, or an
\* escape pair
StrToks == { <<"a">>, <<"{">>, <<"}">>, <<BS, DQ>>, <<BS, BS>> }

RECURSIVE StrBodies(_)
StrBodies(n) ==
    IF n = 0 THEN { <<>> }
    ELSE LET P == StrBodies(n - 1) IN P \cup { p \o t : p \in P, t \in StrToks }

JsonStrings == { <<DQ>> \o b \o <<DQ>> : b \in StrBodies(MaxStrToks) }

RECURSIVE JsonObjects(_)
JsonValues(d) ==
    JsonStrings \cup { <<"1">> } \cup (IF d = 0 THEN {} ELSE JsonObjects(d - 1))

JsonObjects(d) ==
    LET V == JsonValues(d)
        one == { <<DQ, "a", DQ, ":">> \o v : v \in V }
    IN  { <<"{", "}">> }
        \cup { <<"{">> \o m \o <<"}">> : m \in one }
        \cup { <<"{">> \o m \o <<",", DQ, "}", DQ, ":", "1", "}">> : m \in one }

\* text after the object: arbitrary, braces and quotes included
TrailChars == { "}", DQ, "<" }

RECURSIVE Trails(_)
Trails(n) ==
    IF n = 0 THEN { <<>> }
    ELSE LET P == Trails(n - 1) IN P \cup { p \o <<c>> : p \in P, c \in TrailChars }

\* text before the marker
Prefixes == { <<>>, <<"<", "c", "o">> }

\* {"a":"a\"}","}":1}: a string value with an escaped quote followed by a
\* closing brace
EscapedQuoteObject ==
    <<"{", DQ, "a", DQ, ":", DQ, "a", BS, DQ, "}", DQ, ",", DQ, "}", DQ, ":", "1", "}">>

ExampleObjects == { EscapedQuoteObject }

\* text after the marker that is no JSON: a backslash outside a string, a
\* bare word, a closing brace first, nothing
MalformedTexts ==
    { <<"{", BS, "}", "}">>, <<"{", BS, DQ, "}">>, <<"{", "a", "}">>,
      <<"}", "{", "}">>, <<>> }

\* json.loads on the located span: the span decodes iff it is a JSON text.
\* A span the scanner returns is empty or ends at a '}' met outside a string,
\* so a decodable span is an object.
JsonDecodes(s) == s \in JsonObjects(MaxDepth) \cup ExampleObjects

(***************************************************************************)
(* extract_data_from_html                                                  *)
(***************************************************************************)
\* lines 41-55: locate the marker, set up the scanner
FindMarker ==
    /\ spc = "find"
    /\ LET f == Find(content, start_marker) IN
         IF f = -1
         THEN /\ spc' = "raised"
              /\ UNCHANGED <<start_idx, idx, end_idx>>
         ELSE /\ spc' = "scan"
              /\ start_idx' = f + Len(start_marker)
              /\ idx' = f + Len(start_marker)
              /\ end_idx' = f + Len(start_marker)
    /\ brace_count' = 0
    /\ in_string' = FALSE
    /\ escape_next' = FALSE
    /\ UNCHANGED <<content, inputObj, data_str, scanFrame>>

\* the effect of one character on (brace_count, in_string, escape_next) and
\* whether the loop breaks on it (lines 58-79)
ScanCharIgnoringStrings(char, bc, ins, esc) ==
    IF esc THEN [bc |-> bc, ins |-> ins, esc |-> FALSE, brk |-> FALSE]
    ELSE IF char = BS THEN [bc |-> bc, ins |-> ins, esc |-> TRUE, brk |-> FALSE]
    ELSE IF char = "{" THEN [bc |-> bc + 1, ins |-> ins, esc |-> FALSE, brk |-> FALSE]
    ELSE IF char = "}"
         THEN [bc |-> bc - 1, ins |-> ins, esc |-> FALSE, brk |-> (bc - 1 = 0)]
    ELSE [bc |-> bc, ins |-> ins, esc |-> FALSE, brk |-> FALSE]

\* lines 58-79 without the escape tracking of lines 60-66
ScanCharNoEscape(char, bc, ins, esc) ==
    IF char = DQ THEN [bc |-> bc, ins |-> ~ins, esc |-> FALSE, brk |-> FALSE]
    ELSE IF ~ins /\ char = "{"
         THEN [bc |-> bc + 1, ins |-> ins, esc |-> FALSE, brk |-> FALSE]
    ELSE IF ~ins /\ char = "}"
         THEN [bc |-> bc - 1, ins |-> ins, esc |-> FALSE, brk |-> (bc - 1 = 0)]
    ELSE [bc |-> bc, ins |-> ins, esc |-> FALSE, brk |-> FALSE]

ScanChar(char, bc, ins, esc) ==
    IF esc THEN [bc |-> bc, ins |-> ins, esc |-> FALSE, brk |-> FALSE]
    ELSE IF char = BS THEN [bc |-> bc, ins |-> ins, esc |-> TRUE, brk |-> FALSE]
    ELSE IF char = DQ THEN [bc |-> bc, ins |-> ~ins, esc |-> FALSE, brk |-> FALSE]
    ELSE IF ~ins /\ char = "{"
         THEN [bc |-> bc + 1, ins |-> ins, esc |-> FALSE, brk |-> FALSE]
    ELSE IF ~ins /\ char = "}"
         THEN [bc |-> bc - 1, ins |-> ins, esc |-> FALSE, brk |-> (bc - 1 = 0)]
    ELSE [bc |-> bc, ins |-> ins, esc |-> FALSE, brk |-> FALSE]

\* one iteration of `for i in range(start_idx, len(content))`
ScanStep ==
    /\ spc = "scan"
    /\ idx < Len(content)
    /\ LET r == ScanChar(content[idx + 1], brace_count, in_string, escape_next) IN
         /\ brace_count' = r.bc
         /\ in_string' = r.ins
         /\ escape_next' = r.esc
         /\ IF r.brk
            THEN /\ end_idx' = idx + 1
                 /\ spc' = "slice"
                 /\ idx' = idx
            ELSE /\ end_idx' = end_idx
                 /\ spc' = "scan"
                 /\ idx' = idx + 1
    /\ UNCHANGED <<content, inputObj, start_idx, data_str, scanFrame>>

\* the range is exhausted without a break
ScanExhausted ==
    /\ spc = "scan"
    /\ idx >= Len(content)
    /\ spc' = "slice"
    /\ UNCHANGED <<content, inputObj, start_idx, idx, brace_count, in_string,
                   escape_next, end_idx, data_str, scanFrame>>

\* lines 81-82: data_str = content[start_idx:end_idx]; json.loads(data_str)
Decode ==
    /\ spc = "slice"
    /\ data_str' = Slice(content, start_idx, end_idx)
    /\ spc' = IF JsonDecodes(data_str') THEN "returned" ELSE "raised"
    /\ UNCHANGED <<content, inputObj, start_idx, idx, brace_count, in_string,
                   escape_next, end_idx, scanFrame>>

(***************************************************************************)
(* analyze_db_report.py: the workbook and the metric extraction.           *)
(*                                                                         *)
(* A table (DataFrame) is [cols, rows]: the set of column names and the    *)
(* sequence of rows, each row a function on cols.  self.sheets is a        *)
(* function from the names of the loaded sheets to tables.  Numeric cells  *)
(* are integers; ratios the code computes in floating point are kept as    *)
(* exact fractions [num, den] and compared by cross-multiplication.        *)
(***************************************************************************)
NA == "N/A"
NotSpecified == "not specified"     \* the code's "Не указан"
Unknown == "Unknown"

\* a missing numeric cell (pandas reads it as NaN): a number that no cell of
\* the model holds as a value
NaN == -1000000

EmptyDF == [cols |-> {}, rows |-> <<>>]

\* self.sheets.get(name, pd.DataFrame())
SheetGet(sh, name) == IF name \in DOMAIN sh THEN sh[name] ELSE EmptyDF

\* DataFrame.empty: no rows or no columns
IsEmpty(df) == df.cols = {} \/ df.rows = <<>>

\* row.get(col, default)
Get(row, col, default) == IF col \in DOMAIN row THEN row[col] ELSE default

Cond(c, x) == IF c THEN <<x>> ELSE <<>>

Range(s) == { s[i] : i \in 1..Len(s) }

\* int(x / d) of Python for d > 0: truncation toward zero
IntDiv(x, d) == IF x >= 0 THEN x \div d ELSE -((-x) \div d)

Frac(n, d) == [num |-> n, den |-> d]
\* fraction > integer, fraction < integer (den > 0)
FracGt(f, k) == f.num > k * f.den
FracLt(f, k) == f.num < k * f.den

\* a cell holding text where a number is expected
NonNumeric == -1000001

\* lines 37-53 with the quotient rounded down
get_report_period_floor(sh) ==
    LET props == SheetGet(sh, "Properties") IN
    IF IsEmpty(props)
    THEN [start |-> NotSpecified, end |-> NotSpecified, duration |-> 0]
    ELSE LET r == props.rows[1] IN
         [start |-> Get(r, "report_start1", NotSpecified),
          end |-> Get(r, "report_end1", NotSpecified),
          duration |-> IF "interval_duration_sec" \in DOMAIN r
                          /\ r["interval_duration_sec"] \notin {NaN, NonNumeric}
                       THEN r["interval_duration_sec"] \div 60
                       ELSE 0]

\* lines 37-53
get_report_period(sh) ==
    LET props == SheetGet(sh, "Properties") IN
    IF IsEmpty(props)
    THEN [start |-> NotSpecified, end |-> NotSpecified, duration |-> 0]
    ELSE LET r == props.rows[1] IN
         [start |-> Get(r, "report_start1", NotSpecified),
          end |-> Get(r, "report_end1", NotSpecified),
          \* lines 47-51: a missing column (KeyError), text / 60 (TypeError)
          \* and int(nan) (ValueError) are caught; int() drops the fraction
          duration |-> IF "interval_duration_sec" \in DOMAIN r
                          /\ r["interval_duration_sec"] \notin {NaN, NonNumeric}
                       THEN IntDiv(r["interval_duration_sec"], 60)
                       ELSE 0]

\* line 85 without the test of the denominator
RollbackRatioUnguarded(commits, rollbacks) ==
    Frac(rollbacks * 100, commits + rollbacks)

\* line 85: (rollbacks / (commits + rollbacks) * 100)
\*          if (commits + rollbacks) > 0 else 0
RollbackRatio(commits, rollbacks) ==
    IF commits # NaN /\ rollbacks # NaN /\ commits + rollbacks > 0
    THEN Frac(rollbacks * 100, commits + rollbacks)
    ELSE Frac(0, 1)

\* lines 64-101 with the checks chained by elif: the first finding hides the rest
DbRowFirstFinding(row) ==
    LET cache_hit_ratio == Get(row, "blks_hit_pct", 0)
        commits == Get(row, "xact_commit", 0)
        rollbacks == Get(row, "xact_rollback", 0)
        deadlocks == Get(row, "deadlocks", 0)
        temp_files == Get(row, "temp_files", 0)
        rollback_ratio == RollbackRatio(commits, rollbacks)
    IN  [dbname |-> Get(row, "dbname", Unknown),
         size |-> Get(row, "datsize", NA),
         size_delta |-> Get(row, "datsize_delta", NA),
         cache_hit_ratio |-> cache_hit_ratio,
         commits |-> commits,
         rollbacks |-> rollbacks,
         rollback_ratio |-> rollback_ratio,
         deadlocks |-> deadlocks,
         temp_files |-> temp_files,
         temp_bytes |-> Get(row, "temp_bytes", 0),
         issues |-> IF cache_hit_ratio # NaN /\ cache_hit_ratio < 95
                    THEN <<"low_cache_hit_ratio">>
                    ELSE IF deadlocks # 0 /\ deadlocks # NaN /\ deadlocks > 0
                    THEN <<"deadlocks">>
                    ELSE IF temp_files # 0 /\ temp_files # NaN /\ temp_files > 0
                    THEN <<"temp_files">>
                    ELSE Cond(FracGt(rollback_ratio, 5), "high_rollback")]

\* lines 64-101: one row of 'dbstat'
DbRow(row) ==
    LET cache_hit_ratio == Get(row, "blks_hit_pct", 0)
        commits == Get(row, "xact_commit", 0)
        rollbacks == Get(row, "xact_rollback", 0)
        deadlocks == Get(row, "deadlocks", 0)
        temp_files == Get(row, "temp_files", 0)
        rollback_ratio == RollbackRatio(commits, rollbacks)
    IN  [dbname |-> Get(row, "dbname", Unknown),
         size |-> Get(row, "datsize", NA),
         size_delta |-> Get(row, "datsize_delta", NA),
         cache_hit_ratio |-> cache_hit_ratio,
         commits |-> commits,
         rollbacks |-> rollbacks,
         rollback_ratio |-> rollback_ratio,
         deadlocks |-> deadlocks,
         temp_files |-> temp_files,
         temp_bytes |-> Get(row, "temp_bytes", 0),
         \* a comparison with NaN is false
         issues |-> Cond(cache_hit_ratio # NaN /\ cache_hit_ratio < 95,
                         "low_cache_hit_ratio")
                    \o Cond(deadlocks # 0 /\ deadlocks # NaN /\ deadlocks > 0, "deadlocks")
                    \o Cond(temp_files # 0 /\ temp_files # NaN /\ temp_files > 0,
                            "temp_files")
                    \o Cond(FracGt(rollback_ratio, 5), "high_rollback")]

\* lines 55-103
analyze_database_stats(sh) ==
    LET df == SheetGet(sh, "dbstat") IN
    IF IsEmpty(df) THEN <<>>
    ELSE [i \in 1..Len(df.rows) |-> DbRow(df.rows[i])]

\* str.split() separators
IsWs(c) == c \in {" ", "\t", "\n"}

\* str.split() on s[i-1:]: the maximal runs of characters that are not
\* whitespace
Split(s, i) ==
    LET starts == { b \in i..Len(s) : ~IsWs(s[b]) /\ (b = i \/ IsWs(s[b - 1])) }
        Nth(k) == CHOOSE b \in starts : Cardinality({ c \in starts : c <= b }) = k
        EndOf(b) == CHOOSE e \in b..Len(s) :
                        /\ \A j \in b..e : ~IsWs(s[j])
                        /\ (e = Len(s) \/ IsWs(s[e + 1]))
    IN  [k \in 1..Cardinality(starts) |-> SubSeq(s, Nth(k), EndOf(Nth(k)))]

\* ' '.join(words)
RECURSIVE Join(_)
Join(words) ==
    IF words = <<>> THEN <<>>
    ELSE IF Len(words) = 1 THEN words[1]
    ELSE words[1] \o <<" ">> \o Join(Tail(words))

\* lines 105-118.  A text cell is a sequence of characters; <<>> stands for
\* an empty or missing cell.  The result is [raised] (KeyError) or
\* [raised, found, text]; found = FALSE is the code's None.
get_query_text(sh, query_id) ==
    LET queries_df == SheetGet(sh, "queries") IN
    IF IsEmpty(queries_df) THEN [raised |-> FALSE, found |-> FALSE, text |-> <<>>]
    ELSE IF "hexqueryid" \notin queries_df.cols THEN [raised |-> TRUE]
    ELSE LET hit == { i \in 1..Len(queries_df.rows) :
                        queries_df.rows[i]["hexqueryid"] = query_id }
         IN  IF hit = {} THEN [raised |-> FALSE, found |-> FALSE, text |-> <<>>]
             ELSE IF "query_texts" \notin queries_df.cols THEN [raised |-> TRUE]
             ELSE LET first == CHOOSE i \in hit : \A j \in hit : i <= j
                      query_texts == queries_df.rows[first]["query_texts"]
                  IN  IF query_texts # <<>>
                      THEN [raised |-> FALSE, found |-> TRUE,
                            \* the words are computed once
                            text |-> CHOOSE t \in { Join(words)
                                                    : words \in {Split(query_texts, 1)} } : TRUE]
                      ELSE [raised |-> FALSE, found |-> FALSE, text |-> <<>>]

\* the preview length of lines 145-146 and 209-210
PreviewLen == 50

\* query_text[:50] if query_text else 'N/A'
query_preview(t) ==
    IF t.found /\ t.text # <<>>
    THEN SubSeq(t.text, 1, IF Len(t.text) < PreviewLen THEN Len(t.text) ELSE PreviewLen)
    ELSE <<"N", "/", "A">>

\* the ellipsis from 50 characters on
QueryPreviewSuffixInclusive(t) ==
    IF t.found /\ t.text # <<>> /\ Len(t.text) >= PreviewLen THEN "..." ELSE ""

\* '...' if query_text and len(query_text) > 50 else ''
query_preview_suffix(t) ==
    IF t.found /\ t.text # <<>> /\ Len(t.text) > PreviewLen THEN "..." ELSE ""

\* the sequences that enumerate the set S
RECURSIVE Perms(_)
Perms(S) ==
    IF S = {} THEN { <<>> }
    ELSE UNION { { <<x>> \o p : p \in Perms(S \ {x}) } : x \in S }

\* DataFrame.sort_values(by=col, ascending=False) with the default
\* kind='quicksort', which is not a stable sort: the orders of the row
\* indexes S in which key never increases; rows with equal keys come in any
\* order.
RECURSIVE sort_values(_, _)
sort_values(S, key) ==
    IF S = {} THEN { <<>> }
    ELSE LET m == CHOOSE v \in { key[i] : i \in S } : \A i \in S : v >= key[i]
             G == { i \in S : key[i] = m }
         IN  { g \o r : g \in Perms(G), r \in sort_values(S \ G, key) }

\* DataFrame.head(n), s[:n]
HeadN(s, n) == SubSeq(s, 1, IF Len(s) < n THEN Len(s) ELSE n)

\* line 155 with 0 for a query that touched no blocks
QueryCacheRatioZero(shared_blks_hit, shared_blks_read) ==
    IF shared_blks_hit + shared_blks_read > 0
    THEN Frac(shared_blks_hit * 100, shared_blks_hit + shared_blks_read)
    ELSE Frac(0, 1)

\* lines 154-155: (shared_blks_hit / total_blks * 100) if total_blks > 0
\*                else 100
QueryCacheRatio(shared_blks_hit, shared_blks_read) ==
    IF shared_blks_hit + shared_blks_read > 0
    THEN Frac(shared_blks_hit * 100, shared_blks_hit + shared_blks_read)
    ELSE Frac(100, 1)

\* lines 134-179: one selected row of 'top_statements'; `row` is its index
\* in the sheet (not a field of the code's result)
QueryRow(sh, r, i, time_col, mean_col) ==
    LET query_id == Get(r, "hexqueryid", NA)
        mean_time == Get(r, mean_col, 0)
        shared_blks_hit == Get(r, "shared_blks_hit", 0)
        shared_blks_read == Get(r, "shared_blks_read", 0)
        temp_blks_written == Get(r, "temp_blks_written", 0)
        query_cache_ratio == QueryCacheRatio(shared_blks_hit, shared_blks_read)
    \* qt is the one result of get_query_text (line 144)
    IN  CHOOSE res \in {
        IF qt.raised THEN [raised |-> TRUE]
        ELSE [raised |-> FALSE,
              row |-> i,
              query_id |-> query_id,
              query_preview |-> query_preview(qt),
              query_preview_suffix |-> query_preview_suffix(qt),
              dbname |-> Get(r, "dbname", NA),
              username |-> Get(r, "username", NA),
              calls |-> Get(r, "calls", 0),
              total_time |-> Get(r, time_col, 0),
              mean_time |-> mean_time,
              rows |-> Get(r, "rows", 0),
              cache_ratio |-> query_cache_ratio,
              temp_blks |-> temp_blks_written,
              issues |-> Cond(mean_time > 1000, "slow_query")
                         \o Cond(temp_blks_written > 0, "uses_temp")
                         \o Cond(FracLt(query_cache_ratio, 90), "low_cache_hit")]
        : qt \in {get_query_text(sh, query_id)} } : TRUE

\* the outcome of a loop that builds a result list: raised as soon as one
\* row raises
Collect(items) ==
    IF \E k \in 1..Len(items) : items[k].raised
    THEN [raised |-> TRUE]
    ELSE [raised |-> FALSE, val |-> items]

\* lines 120-181: the possible outcomes, one for each order sort_values can
\* produce; [raised |-> TRUE] is a KeyError
analyze_top_queries(sh, top_n) ==
    LET df == SheetGet(sh, "top_statements") IN
    IF IsEmpty(df) THEN { [raised |-> FALSE, val |-> <<>>] }
    ELSE LET time_col == IF "total_exec_time" \in df.cols
                         THEN "total_exec_time" ELSE "total_time"
             mean_col == IF "mean_exec_time" \in df.cols
                         THEN "mean_exec_time" ELSE "mean_time"
         IN  IF time_col \notin df.cols THEN { [raised |-> TRUE] }
             ELSE LET key == [i \in 1..Len(df.rows) |-> df.rows[i][time_col]]
                  IN  { Collect([k \in 1..Len(HeadN(o, top_n)) |->
                                   QueryRow(sh, df.rows[o[k]], o[k], time_col, mean_col)])
                        : o \in sort_values(1..Len(df.rows), key) }

\* lines 203-226: one selected row of the WAL view
WalQueryRow(sh, r, i) ==
    LET query_id == Get(r, "hexqueryid", NA)
    \* qt is the one result of get_query_text (line 208)
    IN  CHOOSE res \in {
        IF qt.raised THEN [raised |-> TRUE]
        ELSE [raised |-> FALSE,
              row |-> i,
              query_id |-> query_id,
              query_preview |-> query_preview(qt),
              query_preview_suffix |-> query_preview_suffix(qt),
              dbname |-> Get(r, "dbname", NA),
              calls |-> Get(r, "calls", 0),
              wal_bytes |-> Get(r, "wal_bytes", 0),
              wal_pct |-> Get(r, "wal_bytes_pct", 0)]
        : qt \in {get_query_text(sh, query_id)} } : TRUE

\* lines 183-228 without the filter of line 194
TopWalQueriesUnfiltered(sh, top_n) ==
    LET df == SheetGet(sh, "top_statements") IN
    IF IsEmpty(df) \/ "wal_bytes" \notin df.cols
    THEN { [raised |-> FALSE, val |-> <<>>] }
    ELSE LET key == [i \in 1..Len(df.rows) |-> df.rows[i]["wal_bytes"]]
         IN  { Collect([k \in 1..Len(HeadN(o, top_n)) |->
                          WalQueryRow(sh, df.rows[o[k]], o[k])])
               : o \in sort_values(1..Len(df.rows), key) }

\* lines 183-228
analyze_top_wal_queries(sh, top_n) ==
    LET df == SheetGet(sh, "top_statements") IN
    IF IsEmpty(df) \/ "wal_bytes" \notin df.cols
    THEN { [raised |-> FALSE, val |-> <<>>] }
    ELSE LET df_wal == { i \in 1..Len(df.rows) :
                          df.rows[i]["wal_bytes"] # NaN /\ df.rows[i]["wal_bytes"] > 0 }
             key == [i \in 1..Len(df.rows) |-> df.rows[i]["wal_bytes"]]
         IN  { Collect([k \in 1..Len(HeadN(o, top_n)) |->
                          WalQueryRow(sh, df.rows[o[k]], o[k])])
               : o \in sort_values(df_wal, key) }

\* lines 230-256; present = FALSE is the empty dict
analyze_wal_stats(sh) ==
    LET df == SheetGet(sh, "wal_stats") IN
    IF IsEmpty(df) THEN [present |-> FALSE]
    ELSE LET row == df.rows[1]
             wal_bytes == Get(row, "wal_bytes", 0)
         IN  [present |-> TRUE,
              records |-> Get(row, "wal_records", 0),
              fpi |-> Get(row, "wal_fpi", 0),
              bytes |-> wal_bytes,
              size_mb |-> IF wal_bytes # 0 THEN Frac(wal_bytes, 1024 * 1024)
                          ELSE Frac(0, 1),
              write_time |-> Get(row, "wal_write_time", 0),
              sync_time |-> Get(row, "wal_sync_time", 0)]

\* lines 266-309: one row of 'top_tables'; `row` is its index in the sheet
TableRow(r, i) ==
    LET n_live_tup == Get(r, "n_live_tup", 0)
        n_dead_tup == Get(r, "n_dead_tup", 0)
        n_mod_since_analyze == Get(r, "n_mod_since_analyze", 0)
        seq_scan == Get(r, "seq_scan", 0)
    IN  [row |-> i,
         dbname |-> Get(r, "dbname", NA),
         schema |-> Get(r, "schemaname", NA),
         table |-> Get(r, "relname", NA),
         size |-> Get(r, "relsize", NA),
         live_tuples |-> n_live_tup,
         dead_tuples |-> n_dead_tup,
         seq_scan |-> seq_scan,
         idx_scan |-> Get(r, "idx_scan", 0),
         mod_since_analyze |-> n_mod_since_analyze,
         \* dead_ratio = n_dead_tup / n_live_tup * 100; dead_ratio > 20
         issues |-> Cond(n_live_tup > 0
                           /\ FracGt(Frac(n_dead_tup * 100, n_live_tup), 20), "bloat")
                    \* n_mod_since_analyze > n_live_tup * 0.2
                    \o Cond(n_live_tup > 0 /\ n_mod_since_analyze * 10 > n_live_tup * 2,
                            "need_analyze")
                    \o Cond(seq_scan > 100 /\ n_live_tup > 10000, "seq_scan")]

\* sorted(results, key=lambda x: len(x['issues']), reverse=True): Python's
\* sort is stable, also with reverse=True
\* an insertion that puts a row before the rows of equal finding count
RECURSIVE InsertBeforeEqual(_, _)
InsertBeforeEqual(sorted, x) ==
    IF sorted = <<>> THEN <<x>>
    ELSE IF Len(sorted[1].issues) > Len(x.issues)
         THEN <<sorted[1]>> \o InsertBeforeEqual(Tail(sorted), x)
         ELSE <<x>> \o sorted

RECURSIVE InsertByIssues(_, _)
InsertByIssues(sorted, x) ==
    IF sorted = <<>> THEN <<x>>
    ELSE IF Len(sorted[1].issues) >= Len(x.issues)
         THEN <<sorted[1]>> \o InsertByIssues(Tail(sorted), x)
         ELSE <<x>> \o sorted

RECURSIVE SortedByIssues(_, _)
SortedByIssues(s, acc) ==
    IF s = <<>> THEN acc
    ELSE SortedByIssues(Tail(s), InsertByIssues(acc, s[1]))

\* lines 258-311
analyze_tables(sh, top_n) ==
    LET df == SheetGet(sh, "top_tables") IN
    IF IsEmpty(df) THEN <<>>
    ELSE LET all == [i \in 1..Len(df.rows) |-> TableRow(df.rows[i], i)]
             results == SelectSeq(all, LAMBDA t : t.issues # <<>>)
         IN  HeadN(SortedByIssues(results, <<>>), top_n)

\* lines 321-333: one row of 'top_indexes'
IndexRow(r) ==
    [dbname |-> Get(r, "dbname", NA),
     schema |-> Get(r, "schemaname", NA),
     table |-> Get(r, "relname", NA),
     index |-> Get(r, "indexrelname", NA),
     size |-> Get(r, "indexrelsize", NA),
     scans |-> Get(r, "idx_scan", 0)]

\* lines 313-335
analyze_indexes(sh) ==
    LET df == SheetGet(sh, "top_indexes") IN
    IF IsEmpty(df) THEN <<>>
    ELSE LET all == [i \in 1..Len(df.rows) |-> IndexRow(df.rows[i])]
         IN  SelectSeq(all, LAMBDA x : x.scans = 0)

(***************************************************************************)
(* generate_markdown_report: the text written to the report, as a sequence *)
(* of lines.  A line is a record: k names the line (a header, a            *)
(* placeholder, a finding, a remediation), x and y carry its names, and a  *)
(* table cell carries the value it shows in v.                             *)
(***************************************************************************)
L(k) == [k |-> k, x |-> "", y |-> ""]
L2(k, x, y) == [k |-> k, x |-> x, y |-> y]
Cell(label, v) == [k |-> "cell", x |-> label, y |-> "", v |-> v]

\* a number written through a format specification ({v:,}, {v:.2f}): NaN
\* comes out as the text 'nan', which y records
NumCell(label, v) ==
    [k |-> "cell", x |-> label, y |-> IF v = NaN THEN "nan" ELSE "", v |-> v]

RECURSIVE Flat(_)
Flat(ss) == IF ss = <<>> THEN <<>> ELSE ss[1] \o Flat(Tail(ss))

\* lines 409-418: wal_per_min and its classification
wal_per_min(wal_stats, duration) ==
    IF duration > 0
    THEN Frac(wal_stats.size_mb.num, wal_stats.size_mb.den * duration)
    ELSE Frac(0, 1)

WalClassInclusive(rate) ==
    IF rate.num >= 100 * rate.den THEN "wal_high"
    ELSE IF rate.num >= 50 * rate.den THEN "wal_moderate"
    ELSE "wal_normal"

WalClass(rate) ==
    IF FracGt(rate, 100) THEN "wal_high"
    ELSE IF FracGt(rate, 50) THEN "wal_moderate"
    ELSE "wal_normal"

\* lines 365-393
RenderDb(db) ==
    <<L2("h3_db", db.dbname, ""),
      Cell("size", db.size), Cell("size_delta", db.size_delta),
      NumCell("cache_hit_ratio", db.cache_hit_ratio),
      \* lines 373-377: '' for NaN
      Cell("commits", IF db.commits = NaN THEN "" ELSE db.commits),
      Cell("rollbacks", IF db.rollbacks = NaN THEN "" ELSE db.rollbacks),
      Cell("rollback_ratio", IF db.rollbacks = NaN THEN "" ELSE db.rollback_ratio),
      Cell("deadlocks", IF db.deadlocks = NaN \/ db.deadlocks = 0 THEN "" ELSE db.deadlocks),
      Cell("temp_files",
           IF db.temp_files = NaN \/ db.temp_files = 0 THEN "" ELSE db.temp_files)>>
    \o (IF db.issues # <<>>
        THEN <<L("db_issues")>> \o [i \in 1..Len(db.issues) |-> L2("issue", db.issues[i], "")]
        ELSE <<L("db_ok")>>)

\* lines 397-420
RenderWal(wal_stats, duration) ==
    <<L("h2_wal")>>
    \o (IF wal_stats.present
        THEN <<NumCell("wal_records", wal_stats.records), NumCell("wal_fpi", wal_stats.fpi),
               Cell("wal_size_mb", wal_stats.size_mb),
               Cell("wal_write_time", wal_stats.write_time),
               Cell("wal_sync_time", wal_stats.sync_time),
               Cell("wal_per_min", wal_per_min(wal_stats, duration)),
               L(WalClass(wal_per_min(wal_stats, duration)))>>
        ELSE <<L("wal_unavailable")>>)

\* lines 422-439
RenderTopWal(top_wal_queries) ==
    IF top_wal_queries # <<>>
    THEN <<L("h3_top_wal")>>
         \o Flat([i \in 1..Len(top_wal_queries) |->
                   LET q == top_wal_queries[i] IN
                   <<L2("wal_query", q.query_id, q.query_preview_suffix),
                     Cell("preview", q.query_preview),
                     Cell("dbname", q.dbname), NumCell("calls", q.calls),
                     Cell("wal_bytes", q.wal_bytes)>>
                   \o Cond(q.wal_pct > 0, Cell("wal_pct", q.wal_pct))])
    ELSE <<>>

\* lines 449-495: one query
RenderQuery(q) ==
    <<L2("h3_query", q.query_id, q.query_preview_suffix),
      Cell("preview", q.query_preview),
      Cell("dbname", q.dbname), Cell("username", q.username),
      NumCell("calls", q.calls), Cell("total_time_ms", q.total_time * 1000),
      NumCell("mean_time", q.mean_time),
      \* lines 464-465: '' for NaN and for 0
      Cell("rows", IF q.rows # NaN /\ q.rows > 0 THEN q.rows ELSE ""),
      Cell("cache_ratio", q.cache_ratio)>>
    \o Cond(q.temp_blks > 0, Cell("temp_blks", q.temp_blks))
    \o (IF q.issues # <<>>
        THEN <<L("query_issues")>> \o [i \in 1..Len(q.issues) |-> L2("issue", q.issues[i], "")]
        ELSE <<L("query_ok")>>)
    \o (LET recommendations ==
              Cond(q.mean_time > 1000, L("rec_optimize_query"))
              \o Cond(q.temp_blks > 0, L("rec_work_mem"))
              \o Cond(FracLt(q.cache_ratio, 90), L("rec_check_indexes"))
        IN  IF recommendations # <<>> THEN <<L("query_recs")>> \o recommendations
            ELSE <<>>)
    \o <<L("hr")>>

RenderTopQueriesNoPlaceholder(top_queries) ==
    <<L("h2_top_queries")>>
    \o (IF top_queries # <<>>
        THEN <<Cell("n_queries", Len(top_queries))>>
             \o Flat([i \in 1..Len(top_queries) |-> RenderQuery(top_queries[i])])
        ELSE <<>>)

\* lines 443-497
RenderTopQueries(top_queries) ==
    <<L("h2_top_queries")>>
    \o (IF top_queries # <<>>
        THEN <<Cell("n_queries", Len(top_queries))>>
             \o Flat([i \in 1..Len(top_queries) |-> RenderQuery(top_queries[i])])
        ELSE <<L("queries_unavailable")>>)

\* lines 520-528: the remediation lines of one table
TableRecsInclusive(t) ==
    Cond(t.dead_tuples * 10 >= t.live_tuples * 2,
         L2("rec_vacuum_analyze", t.schema, t.table))
    \o Cond(t.mod_since_analyze * 10 > t.live_tuples * 2,
            L2("rec_analyze", t.schema, t.table))
    \o Cond(t.seq_scan > 100 /\ t.live_tuples > 10000,
            L2("rec_create_index", t.schema, t.table))

\* lines 520-528 with the index line on the scan count alone
TableRecsSeqOnly(t) ==
    Cond(t.dead_tuples * 10 > t.live_tuples * 2,
         L2("rec_vacuum_analyze", t.schema, t.table))
    \o Cond(t.mod_since_analyze * 10 > t.live_tuples * 2,
            L2("rec_analyze", t.schema, t.table))
    \o Cond(t.seq_scan > 100, L2("rec_create_index", t.schema, t.table))

TableRecs(t) ==
    \* table['dead_tuples'] > table['live_tuples'] * 0.2
    Cond(t.dead_tuples * 10 > t.live_tuples * 2,
         L2("rec_vacuum_analyze", t.schema, t.table))
    \o Cond(t.mod_since_analyze * 10 > t.live_tuples * 2,
            L2("rec_analyze", t.schema, t.table))
    \o Cond(t.seq_scan > 100 /\ t.live_tuples > 10000,
            L2("rec_create_index", t.schema, t.table))

\* lines 503-530: one table
RenderTable(t) ==
    <<L2("h3_table", t.schema, t.table),
      Cell("dbname", t.dbname), Cell("size", t.size),
      NumCell("live_tuples", t.live_tuples), NumCell("dead_tuples", t.dead_tuples),
      NumCell("seq_scan", t.seq_scan), NumCell("idx_scan", t.idx_scan),
      NumCell("mod_since_analyze", t.mod_since_analyze),
      L("table_issues")>>
    \o [i \in 1..Len(t.issues) |-> L2("issue", t.issues[i], "")]
    \o <<L("table_recs")>>
    \o TableRecs(t)
    \o <<L("hr")>>

\* lines 499-530
RenderTables(problem_tables) ==
    IF problem_tables # <<>>
    THEN <<L("h2_tables")>>
         \o Flat([i \in 1..Len(problem_tables) |-> RenderTable(problem_tables[i])])
    ELSE <<>>

\* lines 532-549
RenderIndexes(unused_indexes) ==
    IF unused_indexes # <<>>
    THEN <<L("h2_indexes")>>
         \o [i \in 1..Len(HeadN(unused_indexes, 10)) |->
               L2("index_row", unused_indexes[i].schema, unused_indexes[i].index)]
         \o <<L("rec_drop_indexes")>>
         \o [i \in 1..Len(HeadN(unused_indexes, 3)) |->
               L2("drop_index", unused_indexes[i].schema, unused_indexes[i].index)]
         \o <<L("hr")>>
    ELSE <<>>

\* lines 551-609
RenderSummary(m) ==
    LET good_things ==
          Flat([i \in 1..Len(m.db_stats) |->
                  Cond(m.db_stats[i].cache_hit_ratio >= 95,
                       L2("good_cache_hit", m.db_stats[i].dbname, ""))
                  \o Cond(m.db_stats[i].deadlocks = 0,
                          L2("good_no_deadlocks", m.db_stats[i].dbname, ""))])
        critical ==
          Flat([i \in 1..Len(m.db_stats) |->
                  Cond(m.db_stats[i].cache_hit_ratio < 90,
                       L2("crit_cache_hit", m.db_stats[i].dbname, ""))
                  \o Cond(m.db_stats[i].deadlocks # 0 /\ m.db_stats[i].deadlocks > 0,
                          L2("crit_deadlocks", m.db_stats[i].dbname, ""))])
        recommendations ==
          Flat([i \in 1..Len(m.db_stats) |->
                  Cond(m.db_stats[i].temp_files # 0 /\ m.db_stats[i].temp_files > 0,
                       L("sum_work_mem"))
                  \o Cond(90 <= m.db_stats[i].cache_hit_ratio
                            /\ m.db_stats[i].cache_hit_ratio < 95,
                          L("sum_shared_buffers"))])
          \o Cond(m.problem_tables # <<>>, L("sum_autovacuum"))
          \o Cond(m.unused_indexes # <<>>, L("sum_drop_indexes"))
          \o Cond(\E i \in 1..Len(m.top_queries) : m.top_queries[i].mean_time > 1000,
                  L("sum_slow_queries"))
    IN  <<L("h2_summary"), L("h3_good")>>
        \o (IF good_things = <<>> THEN <<L("good_stable")>> ELSE good_things)
        \o <<L("h3_critical")>>
        \o (IF critical = <<>> THEN <<L("crit_none")>> ELSE critical)
        \o <<L("h3_recommendations")>>
        \o (IF recommendations = <<>> THEN <<L("sum_none")>> ELSE recommendations)

\* lines 349-619: everything the with-block writes
ReportLines(m) ==
    <<L("h1_title"), L("date"),
      L("h2_period"), Cell("start", m.period.start), Cell("end", m.period.end),
      Cell("duration", m.period.duration), L("hr"),
      L("h2_db")>>
    \o Flat([i \in 1..Len(m.db_stats) |-> RenderDb(m.db_stats[i])])
    \o <<L("hr")>>
    \o RenderWal(m.wal_stats, m.period.duration)
    \o RenderTopWal(m.top_wal_queries)
    \o <<L("hr")>>
    \o RenderTopQueries(m.top_queries)
    \o RenderTables(m.problem_tables)
    \o RenderIndexes(m.unused_indexes)
    \o RenderSummary(m)
    \o <<L("hr"), L("h2_footer"), L("footer_source"), L("footer_tools"),
         L("footer_method"), L("footer_generated")>>

(***************************************************************************)
(* process_excel_file and the PostgresAnalyzer methods it runs, in steps.  *)
(*                                                                         *)
(* A workbook on disk is [exists, corrupt, names, bad, data, io]: corrupt  *)
(* makes pd.ExcelFile raise, bad are the sheets pd.read_excel raises on,   *)
(* io is an I/O error of the report file ("open": open() raises, "write":  *)
(* a write raises) or "none".  A report file is [exists, lines].           *)
(***************************************************************************)
NoMetrics == [period |-> get_report_period(<<>>), db_stats |-> <<>>,
              top_queries |-> <<>>, wal_stats |-> [present |-> FALSE],
              top_wal_queries |-> <<>>, problem_tables |-> <<>>,
              unused_indexes |-> <<>>]

NoReport == [exists |-> FALSE, lines |-> <<>>]

XlIdle ==
    /\ xlsx = <<>> /\ reports = <<>> /\ cur = "" /\ ppc = "idle"
    /\ sheet_names = <<>> /\ loadi = 0 /\ sheets = <<>>
    /\ metrics = NoMetrics /\ pending = FALSE

\* lines 626-630: the existence check
ExcelStart ==
    /\ ppc = "start"
    /\ IF ~xlsx[cur].exists
       THEN /\ ppc' = "returned"
            /\ ret' = "False"
       ELSE /\ ppc' = "load"
            /\ ret' = ret
    /\ sheets' = <<>>
    /\ metrics' = NoMetrics
    /\ UNCHANGED <<xlsx, reports, cur, sheet_names, loadi, pending, open, xlFrame>>

\* line 28: xl_file = pd.ExcelFile(self.excel_file)
LoadOpen ==
    /\ ppc = "load"
    /\ IF xlsx[cur].corrupt
       THEN /\ ppc' = "except"
            /\ UNCHANGED <<open, sheet_names, loadi>>
       ELSE /\ ppc' = "load_loop"
            /\ open' = open \cup {"reader"}
            /\ sheet_names' = xlsx[cur].names
            /\ loadi' = 1
    /\ UNCHANGED <<xlsx, reports, cur, sheets, metrics, pending, ret, xlFrame>>

\* lines 30-35: one iteration; a sheet that raises is reported and skipped
LoadSheet ==
    /\ ppc = "load_loop"
    /\ loadi <= Len(sheet_names)
    /\ IF sheet_names[loadi] \in xlsx[cur].bad
       THEN sheets' = sheets
       ELSE sheets' = sheets @@ (sheet_names[loadi] :> xlsx[cur].data[sheet_names[loadi]])
    /\ loadi' = loadi + 1
    /\ UNCHANGED <<xlsx, reports, cur, ppc, sheet_names, metrics, pending, open, ret,
                   xlFrame>>

\* load_data returns.  Nothing closes xl_file; the reader stays open until
\* the runtime finalizes the unreferenced object.
LoadDone ==
    /\ ppc = "load_loop"
    /\ loadi > Len(sheet_names)
    /\ ppc' = "extract"
    /\ UNCHANGED <<xlsx, reports, cur, sheet_names, loadi, sheets, metrics, pending,
                   open, ret, xlFrame>>

\* the garbage collector finalizes the reader some time after load_data
Finalize ==
    /\ "reader" \in open
    /\ ppc \notin {"load", "load_loop"}
    /\ open' = open \ {"reader"}
    /\ UNCHANGED <<xlVars, ret, xlFrame>>

\* the top_n arguments of lines 343, 345 and 346
TopQueriesN == 10
TopWalN == 5
TopTablesN == 10

\* lines 341-349 with the file opened before the extractions
ExtractAfterOpen ==
    /\ ppc = "extract"
    /\ reports' = [reports EXCEPT ![cur] = [exists |-> TRUE, lines |-> <<>>]]
    /\ \E tq \in analyze_top_queries(sheets, TopQueriesN),
          twq \in analyze_top_wal_queries(sheets, TopWalN) :
          IF tq.raised \/ twq.raised
          THEN /\ ppc' = "except"
               /\ metrics' = metrics
          ELSE /\ ppc' = "open"
               /\ metrics' = [period |-> get_report_period(sheets),
                              db_stats |-> analyze_database_stats(sheets),
                              top_queries |-> tq.val,
                              wal_stats |-> analyze_wal_stats(sheets),
                              top_wal_queries |-> twq.val,
                              problem_tables |-> analyze_tables(sheets, TopTablesN),
                              unused_indexes |-> analyze_indexes(sheets)]
    /\ UNCHANGED <<xlsx, cur, sheet_names, loadi, sheets, pending, open, ret, xlFrame>>

\* lines 341-347: the seven extractions, before the file is opened
Extract ==
    /\ ppc = "extract"
    /\ \E tq \in analyze_top_queries(sheets, TopQueriesN),
          twq \in analyze_top_wal_queries(sheets, TopWalN) :
          IF tq.raised \/ twq.raised
          THEN /\ ppc' = "except"
               /\ metrics' = metrics
          ELSE /\ ppc' = "open"
               /\ metrics' = [period |-> get_report_period(sheets),
                              db_stats |-> analyze_database_stats(sheets),
                              top_queries |-> tq.val,
                              wal_stats |-> analyze_wal_stats(sheets),
                              top_wal_queries |-> twq.val,
                              problem_tables |-> analyze_tables(sheets, TopTablesN),
                              unused_indexes |-> analyze_indexes(sheets)]
    /\ UNCHANGED <<xlsx, reports, cur, sheet_names, loadi, sheets, pending, open, ret,
                   xlFrame>>

\* line 349: open(output_file, 'w') creates or truncates the report
OpenReport ==
    /\ ppc = "open"
    /\ IF xlsx[cur].io = "open"
       THEN /\ ppc' = "except"
            /\ UNCHANGED <<reports, open>>
       ELSE /\ ppc' = "write"
            /\ reports' = [reports EXCEPT ![cur] = [exists |-> TRUE, lines |-> <<>>]]
            /\ open' = open \cup {"report"}
    /\ UNCHANGED <<xlsx, cur, sheet_names, loadi, sheets, metrics, pending, ret,
                   xlFrame>>

\* lines 350-619: the writes; a write that raises leaves what was written
WriteReport ==
    /\ ppc = "write"
    /\ LET lines == ReportLines(metrics) IN
         IF xlsx[cur].io = "write"
         THEN /\ \E n \in 0..(Len(lines) - 1) :
                    reports' = [reports EXCEPT ![cur].lines = SubSeq(lines, 1, n)]
              /\ pending' = TRUE
         ELSE /\ reports' = [reports EXCEPT ![cur].lines = lines]
              /\ pending' = FALSE
    /\ ppc' = "close"
    /\ UNCHANGED <<xlsx, cur, sheet_names, loadi, sheets, metrics, open, ret, xlFrame>>

\* the with-block of line 349 ends: the report file is closed, on a normal
\* exit and on an exception
CloseReport ==
    /\ ppc = "close"
    /\ open' = open \ {"report"}
    /\ ppc' = IF pending THEN "except" ELSE "finish"
    /\ pending' = FALSE
    /\ UNCHANGED <<xlsx, reports, cur, sheet_names, loadi, sheets, metrics, ret,
                   xlFrame>>

\* lines 645-652
ExcelReturnTrue ==
    /\ ppc = "finish"
    /\ ppc' = "returned"
    /\ ret' = "True"
    /\ UNCHANGED <<xlsx, reports, cur, sheet_names, loadi, sheets, metrics, pending,
                   open, xlFrame>>

\* lines 654-658: except Exception
ExcelExcept ==
    /\ ppc = "except"
    /\ ppc' = "returned"
    /\ ret' = "False"
    /\ UNCHANGED <<xlsx, reports, cur, sheet_names, loadi, sheets, metrics, pending,
                   open, xlFrame>>

ProcessExcel ==
    \/ ExcelStart
    \/ LoadOpen
    \/ LoadSheet
    \/ LoadDone
    \/ Finalize
    \/ Extract
    \/ OpenReport
    \/ WriteReport
    \/ CloseReport
    \/ ExcelReturnTrue
    \/ ExcelExcept

(***************************************************************************)
(* process_html_file, extract_data_from_html's file access and             *)
(* save_to_excel, in steps.                                                *)
(*                                                                         *)
(* An HTML file on disk is [exists, content, data]: data is what the JSON  *)
(* object in content decodes to, as far as save_to_excel looks at it:      *)
(* properties is "absent", "ok" or "bad" (building or writing the sheet    *)
(* raises), datasets is a sequence of [name, kind] with kind "ok", "empty" *)
(* (not a non-empty list), "bad_normalize" (json_normalize raises) or      *)
(* "bad_write" (to_excel raises after it created the sheet), sections is   *)
(* "absent", "ok" or "bad" (raises, before or after the sheet is created). *)
(* Dataset names are shorter than 31 characters, so dataset_name[:31] is   *)
(* the name.  An output workbook is [state, sheets] with state "absent",   *)
(* "open" (created by the writer, not yet a workbook) or "saved".          *)
(***************************************************************************)
NoData == [properties |-> "absent", datasets |-> <<>>, sections |-> "absent"]
NoBook == [state |-> "absent", sheets |-> <<>>]

HtmlIdle ==
    /\ html = <<>> /\ outbooks = <<>> /\ hpc = "idle"
    /\ data = NoData /\ di = 0 /\ book = <<>>

\* lines 234-238: the existence check
HtmlStart ==
    /\ hpc = "start"
    /\ IF ~html[cur].exists
       THEN /\ hpc' = "returned"
            /\ ret' = "False"
       ELSE /\ hpc' = "read"
            /\ ret' = ret
    /\ UNCHANGED <<html, outbooks, data, di, book, open, htmlFrame>>

\* line 38: with open(html_file_path, 'r', encoding='utf-8') as f
HtmlReadOpen ==
    /\ hpc = "read"
    /\ open' = open \cup {"html"}
    /\ hpc' = "reading"
    /\ UNCHANGED <<html, outbooks, data, di, book, ret, htmlFrame>>

\* line 39 and the end of the with-block: content = f.read(); f is closed
HtmlReadClose ==
    /\ hpc = "reading"
    /\ content' = html[cur].content
    /\ inputObj' = <<>>
    /\ spc' = "find"
    /\ open' = open \ {"html"}
    /\ hpc' = "extract"
    /\ UNCHANGED <<html, outbooks, data, di, book, ret, xlVars, mainVars,
                   start_idx, idx, brace_count, in_string, escape_next, end_idx,
                   data_str>>

\* line 250: extract_data_from_html returned the decoded object
HtmlExtracted ==
    /\ hpc = "extract"
    /\ spc = "returned"
    /\ data' = html[cur].data
    /\ hpc' = "save"
    /\ UNCHANGED <<html, outbooks, di, book, open, ret, htmlFrame>>

\* lines 248-253 with the failed extraction swallowed: save_to_excel is
\* called with an empty object
HtmlExtractRaisedSaves ==
    /\ hpc = "extract"
    /\ spc = "raised"
    /\ data' = NoData
    /\ hpc' = "save"
    /\ UNCHANGED <<html, outbooks, di, book, open, ret, htmlFrame>>

\* extract_data_from_html raised (no marker, or json.loads failed)
HtmlExtractRaised ==
    /\ hpc = "extract"
    /\ spc = "raised"
    /\ hpc' = "except"
    /\ UNCHANGED <<html, outbooks, data, di, book, open, ret, htmlFrame>>

\* line 181: with pd.ExcelWriter(output_file, engine='openpyxl') as writer
SaveOpen ==
    /\ hpc = "save"
    /\ open' = open \cup {"writer"}
    /\ outbooks' = [outbooks EXCEPT ![cur] = [state |-> "open", sheets |-> <<>>]]
    /\ book' = <<>>
    /\ hpc' = "save_properties"
    /\ UNCHANGED <<html, data, di, ret, htmlFrame>>

\* lines 184-192: not inside a try; an exception leaves the with-block
SaveProperties ==
    /\ hpc = "save_properties"
    /\ IF data.properties = "ok"
       THEN /\ book' = Append(book, "Properties")
            /\ hpc' = "save_datasets"
            /\ pending' = FALSE
       ELSE IF data.properties = "bad"
       THEN /\ \E created \in BOOLEAN :
                  book' = IF created THEN Append(book, "Properties") ELSE book
            /\ hpc' = "save_close"
            /\ pending' = TRUE
       ELSE /\ book' = book
            /\ hpc' = "save_datasets"
            /\ pending' = FALSE
    /\ di' = 1
    /\ UNCHANGED <<html, outbooks, data, open, ret, scanVars, mainVars,
                   xlsx, reports, cur, ppc, sheet_names, loadi, sheets, metrics>>

\* lines 196-213: one dataset; an exception is reported and the loop goes on
SaveDataset ==
    /\ hpc = "save_datasets"
    /\ di <= Len(data.datasets)
    /\ LET d == data.datasets[di] IN
         book' = IF d.kind \in {"ok", "bad_write"} THEN Append(book, d.name) ELSE book
    /\ di' = di + 1
    /\ UNCHANGED <<html, outbooks, hpc, data, open, ret, htmlFrame>>

\* lines 216-227: the sections, after the last dataset
SaveSections ==
    /\ hpc = "save_datasets"
    /\ di > Len(data.datasets)
    /\ IF data.sections = "ok"
       THEN book' = Append(book, "Sections")
       ELSE IF data.sections = "bad"
       THEN \E created \in BOOLEAN :
               book' = IF created THEN Append(book, "Sections") ELSE book
       ELSE book' = book
    /\ hpc' = "save_close"
    /\ UNCHANGED <<html, outbooks, data, di, open, ret, htmlFrame>>

\* the with-block of line 181 ends: the writer saves the workbook and closes
\* the file.  openpyxl does not save a workbook without a sheet (IndexError);
\* whether the file handle is closed when the save raises is up to the
\* library.
SaveClose ==
    /\ hpc = "save_close"
    /\ IF book = <<>>
       THEN /\ hpc' = "except"
            /\ outbooks' = outbooks
            /\ \E closed \in BOOLEAN :
                  open' = IF closed THEN open \ {"writer"} ELSE open
       ELSE /\ hpc' = IF pending THEN "except" ELSE "finish"
            /\ outbooks' = [outbooks EXCEPT ![cur] = [state |-> "saved", sheets |-> book]]
            /\ open' = open \ {"writer"}
    /\ pending' = FALSE
    /\ UNCHANGED <<html, data, di, book, ret, scanVars, mainVars,
                   xlsx, reports, cur, ppc, sheet_names, loadi, sheets, metrics>>

\* lines 255-262
HtmlReturnTrue ==
    /\ hpc = "finish"
    /\ hpc' = "returned"
    /\ ret' = "True"
    /\ UNCHANGED <<html, outbooks, data, di, book, open, htmlFrame>>

\* lines 264-268: except Exception
HtmlExcept ==
    /\ hpc = "except"
    /\ hpc' = "returned"
    /\ ret' = "False"
    /\ UNCHANGED <<html, outbooks, data, di, book, open, htmlFrame>>

ProcessHtml ==
    \/ HtmlStart
    \/ HtmlReadOpen
    \/ HtmlReadClose
    \/ FindMarker
    \/ ScanStep
    \/ ScanExhausted
    \/ Decode
    \/ HtmlExtracted
    \/ HtmlExtractRaised
    \/ SaveOpen
    \/ SaveProperties
    \/ SaveDataset
    \/ SaveSections
    \/ SaveClose
    \/ HtmlReturnTrue
    \/ HtmlExcept

(***************************************************************************)
(* main of both programs (analyze_db_report.py lines 685-736,              *)
(* parse_html_to_excel.py lines 295-346): the same text up to the function *)
(* called for each file.  An argument is [glob, name, matches]: a pattern  *)
(* with the files glob.glob finds for it, or a plain file name.            *)
(***************************************************************************)
DefaultFile == "default"

MainIdle ==
    /\ tool = "none" /\ argv = <<>> /\ mpc = "idle" /\ ai = 0
    /\ files_to_process = <<>> /\ fi = 0
    /\ success_count = 0 /\ failed_count = 0
    /\ console = <<>> /\ processed = <<>>

\* lines 688-701 with a pattern that matches nothing ending the run
MainArgAbortsOnUnmatched ==
    /\ mpc = "args"
    /\ argv # <<>>
    /\ ai <= Len(argv)
    /\ LET a == argv[ai] IN
         IF a.glob
         THEN IF a.matches # <<>>
              THEN /\ files_to_process' = files_to_process \o a.matches
                   /\ console' = console
                   /\ mpc' = mpc
              ELSE /\ files_to_process' = files_to_process
                   /\ console' = Append(console, "warning")
                   /\ mpc' = "done"
         ELSE /\ files_to_process' = Append(files_to_process, a.name)
              /\ console' = console
              /\ mpc' = mpc
    /\ ai' = ai + 1
    /\ UNCHANGED <<tool, argv, fi, success_count, failed_count, processed,
                   scanVars, xlVars, htmlVars, open, ret>>

\* lines 688-701: one argument
MainArg ==
    /\ mpc = "args"
    /\ argv # <<>>
    /\ ai <= Len(argv)
    /\ LET a == argv[ai] IN
         IF a.glob
         THEN IF a.matches # <<>>
              THEN /\ files_to_process' = files_to_process \o a.matches
                   /\ console' = console
              ELSE /\ files_to_process' = files_to_process
                   /\ console' = Append(console, "warning")
         ELSE /\ files_to_process' = Append(files_to_process, a.name)
              /\ console' = console
    /\ ai' = ai + 1
    /\ UNCHANGED <<tool, argv, mpc, fi, success_count, failed_count, processed,
                   scanVars, xlVars, htmlVars, open, ret>>

\* lines 702-705: no arguments, the default file
MainDefault ==
    /\ mpc = "args"
    /\ argv = <<>>
    /\ files_to_process' = <<DefaultFile>>
    /\ mpc' = "resolved"
    /\ UNCHANGED <<tool, argv, ai, fi, success_count, failed_count, console, processed,
                   scanVars, xlVars, htmlVars, open, ret>>

MainArgsDone ==
    /\ mpc = "args"
    /\ argv # <<>>
    /\ ai > Len(argv)
    /\ mpc' = "resolved"
    /\ UNCHANGED <<tool, argv, ai, files_to_process, fi, success_count, failed_count,
                   console, processed, scanVars, xlVars, htmlVars, open, ret>>

\* lines 707-720: nothing to process is an error and main returns; else the
\* counters are set up
MainResolved ==
    /\ mpc = "resolved"
    /\ IF files_to_process = <<>>
       THEN /\ console' = console \o <<"no_files", "help">>
            /\ mpc' = "done"
       ELSE /\ console' = Append(console, "found")
            /\ mpc' = "loop"
    /\ success_count' = 0
    /\ failed_count' = 0
    /\ fi' = 1
    /\ UNCHANGED <<tool, argv, ai, files_to_process, processed,
                   scanVars, xlVars, htmlVars, open, ret>>

\* lines 722-723: the call of process_excel_file / process_html_file
MainCall ==
    /\ mpc = "loop"
    /\ fi <= Len(files_to_process)
    /\ cur' = files_to_process[fi]
    /\ IF tool = "excel"
       THEN ppc' = "start" /\ hpc' = hpc
       ELSE hpc' = "start" /\ ppc' = ppc
    /\ mpc' = "call"
    /\ UNCHANGED <<tool, argv, ai, files_to_process, fi, success_count, failed_count,
                   console, processed, scanVars, open, ret,
                   xlsx, reports, sheet_names, loadi, sheets, metrics, pending,
                   html, outbooks, data, di, book>>

\* lines 723-726 with the loop ending at the first file that fails
MainCountBreaksOnFailure ==
    /\ mpc = "call"
    /\ IF tool = "excel" THEN ppc = "returned" ELSE hpc = "returned"
    /\ IF ret = "True"
       THEN /\ success_count' = success_count + 1
            /\ failed_count' = failed_count
            /\ fi' = fi + 1
       ELSE /\ success_count' = success_count
            /\ failed_count' = failed_count + 1
            /\ fi' = Len(files_to_process) + 1
    /\ processed' = Append(processed, [file |-> cur, result |-> ret])
    /\ IF tool = "excel"
       THEN ppc' = "idle" /\ hpc' = hpc
       ELSE hpc' = "idle" /\ ppc' = ppc
    /\ mpc' = "loop"
    /\ UNCHANGED <<tool, argv, ai, files_to_process, console, scanVars, open, ret, cur,
                   xlsx, reports, sheet_names, loadi, sheets, metrics, pending,
                   html, outbooks, data, di, book>>

\* lines 723-726: the call returned; count the file
MainCount ==
    /\ mpc = "call"
    /\ IF tool = "excel" THEN ppc = "returned" ELSE hpc = "returned"
    /\ IF ret = "True"
       THEN /\ success_count' = success_count + 1
            /\ failed_count' = failed_count
       ELSE /\ success_count' = success_count
            /\ failed_count' = failed_count + 1
    /\ processed' = Append(processed, [file |-> cur, result |-> ret])
    /\ fi' = fi + 1
    /\ IF tool = "excel"
       THEN ppc' = "idle" /\ hpc' = hpc
       ELSE hpc' = "idle" /\ ppc' = ppc
    /\ mpc' = "loop"
    /\ UNCHANGED <<tool, argv, ai, files_to_process, console, scanVars, open, ret, cur,
                   xlsx, reports, sheet_names, loadi, sheets, metrics, pending,
                   html, outbooks, data, di, book>>

\* lines 728-736: the tally
MainTally ==
    /\ mpc = "loop"
    /\ fi > Len(files_to_process)
    /\ console' = Append(console, "tally")
    /\ mpc' = "done"
    /\ UNCHANGED <<tool, argv, ai, files_to_process, fi, success_count, failed_count,
                   processed, scanVars, xlVars, htmlVars, open, ret>>

Main ==
    \/ MainArg
    \/ MainDefault
    \/ MainArgsDone
    \/ MainResolved
    \/ MainCall
    \/ MainCount
    \/ MainTally

(***************************************************************************)
(* Input workbooks                                                         *)
(***************************************************************************)
SheetOrder == <<"Properties", "dbstat", "top_statements", "queries", "wal_stats",
                "top_tables", "top_indexes">>
SheetNames == Range(SheetOrder)

Restrict(f, S) == [x \in S |-> f[x]]
TableOf(rows) == [cols |-> DOMAIN rows[1], rows |-> rows]
DropCols(df, A) ==
    [cols |-> df.cols \ A,
     rows |-> [i \in 1..Len(df.rows) |-> Restrict(df.rows[i], df.cols \ A)]]

PropsRow(sec) ==
    [report_start1 |-> "t0", report_end1 |-> "t1", interval_duration_sec |-> sec]
StatRow ==
    [dbname |-> "db1", blks_hit_pct |-> 99, datsize |-> "10 MB",
     datsize_delta |-> "1 MB", xact_commit |-> 100, xact_rollback |-> 1,
     deadlocks |-> 0, temp_files |-> 0, temp_bytes |-> 0]
StmtRow(id, time, wal) ==
    [hexqueryid |-> id, dbname |-> "db1", username |-> "u1", calls |-> 5,
     total_exec_time |-> time, mean_exec_time |-> 1, rows |-> 3,
     shared_blks_hit |-> 90, shared_blks_read |-> 10, temp_blks_written |-> 0,
     wal_bytes |-> wal, wal_bytes_pct |-> 1]
\* the same row under the older column names
LegacyStmtRow ==
    [hexqueryid |-> "q1", dbname |-> "db1", username |-> "u1", calls |-> 5,
     total_time |-> 7, mean_time |-> 1, rows |-> 3,
     shared_blks_hit |-> 90, shared_blks_read |-> 10, temp_blks_written |-> 0,
     wal_bytes |-> 4, wal_bytes_pct |-> 1]
TextRow == [hexqueryid |-> "q1", query_texts |-> <<"S", " ", "\n", "1">>]
WalRow(bytes) ==
    [wal_records |-> 10, wal_fpi |-> 1, wal_bytes |-> bytes, wal_write_time |-> 0,
     wal_sync_time |-> 0]
TupRow(live, dead, mod, seq) ==
    [dbname |-> "db1", schemaname |-> "public", relname |-> "t1",
     n_live_tup |-> live, n_dead_tup |-> dead, n_mod_since_analyze |-> mod,
     seq_scan |-> seq, idx_scan |-> 1, relsize |-> "8 kB"]
IdxRow ==
    [dbname |-> "db1", schemaname |-> "public", relname |-> "t1",
     indexrelname |-> "i1", indexrelsize |-> "8 kB", idx_scan |-> 0]

MB == 1024 * 1024

FullWorkbook ==
    [Properties |-> TableOf(<<PropsRow(120)>>),
     dbstat |-> TableOf(<<StatRow>>),
     top_statements |-> TableOf(<<StmtRow("q1", 7, 4)>>),
     queries |-> TableOf(<<TextRow>>),
     wal_stats |-> TableOf(<<WalRow(60 * MB)>>),
     top_tables |-> TableOf(<<TupRow(1000, 300, 300, 0)>>),
     top_indexes |-> TableOf(<<IdxRow>>)]

LegacyWorkbook == [FullWorkbook EXCEPT !.top_statements = TableOf(<<LegacyStmtRow>>)]

\* a workbook file that opens and reads without error
Book(tables) ==
    [exists |-> TRUE, corrupt |-> FALSE,
     names |-> SelectSeq(SheetOrder, LAMBDA n : n \in DOMAIN tables),
     bad |-> {}, data |-> tables, io |-> "none"]

\* every sheet present and non-empty, up to MaxAbsent columns absent from
\* one of them
ColumnBooks ==
    UNION { { Book([w EXCEPT ![s] = DropCols(w[s], A)])
              : A \in { B \in SUBSET w[s].cols : B # {} /\ Cardinality(B) <= MaxAbsent } }
            : w \in {FullWorkbook, LegacyWorkbook}, s \in SheetNames }

\* any set of the expected sheets present
SheetBooks == { Book(Restrict(FullWorkbook, S)) : S \in SUBSET SheetNames }

\* 'top_tables' rows around the thresholds of analyze_tables
TupRows ==
    { TupRow(0, 3, 0, 101) }
    \cup { TupRow(1000, 300, 0, 0), TupRow(1000, 100, 0, 0) }
    \cup { TupRow(1000, d, m, 101) : d \in {200, 201}, m \in {200, 201} }
    \cup { TupRow(20000, d, 0, q) : d \in {4000, 4001}, q \in {100, 101} }

RECURSIVE SeqsUpTo(_, _)
SeqsUpTo(S, n) ==
    IF n = 0 THEN { <<>> }
    ELSE LET P == SeqsUpTo(S, n - 1) IN P \cup { Append(p, x) : p \in P, x \in S }

TableBooks ==
    { Book([Properties |-> TableOf(<<PropsRow(120)>>), top_tables |-> TableOf(rows)])
      : rows \in SeqsUpTo(TupRows, MaxTableRows) \ { <<>> } }

\* a 'top_tables' row with n findings
TupByIssues(n) ==
    IF n = 0 THEN TupRow(1000, 100, 0, 0)
    ELSE IF n = 1 THEN TupRow(1000, 300, 0, 0)
    ELSE IF n = 2 THEN TupRow(1000, 300, 300, 0)
    ELSE TupRow(20000, 5000, 5000, 101)

\* more rows than analyze_tables keeps: finding counts that vary in the first
\* rows and in the rows past the tenth
IssueCounts ==
    { <<a, b, 1, 1, 2, 1, 1, 1, 1, 1, c, d>> : a, b \in {0, 1, 2}, c, d \in {1, 2, 3} }

ManyTableBooks ==
    { Book([top_tables |-> TableOf([i \in 1..Len(n) |-> TupByIssues(n[i])])])
      : n \in IssueCounts }

\* query texts of 49 to 51 characters once the whitespace is collapsed, one
\* with a whitespace run at the fiftieth character, texts with leading and
\* trailing whitespace, of whitespace only, empty, short
Xs(n) == [i \in 1..n |-> "x"]

QueryTexts ==
    { <<"a", " ", "\n", "\t">> \o Xs(k) : k \in 47..49 }
    \cup { Xs(49) \o <<" ", " ", "y">>,
            <<" ", "a", " ", "b", "\n">>,
            <<" ", "\n">>,
            <<>>,
            <<"a", "b">> }

\* two statements; the 'queries' sheet lists the first one twice and the
\* second one not at all
TextBooks ==
    { Book([top_statements |-> TableOf(<<StmtRow("q1", 7, 4), StmtRow("q2", 6, 0)>>),
            queries |-> TableOf(<<[hexqueryid |-> "q1", query_texts |-> t],
                                  [hexqueryid |-> "q1", query_texts |-> <<"z">>]>>)])
      : t \in QueryTexts }

\* WAL volumes around the thresholds, periods of 0..MaxMinutes minutes and
\* a little more
WalBooks ==
    { Book([Properties |-> TableOf(<<PropsRow(sec)>>), wal_stats |-> TableOf(<<WalRow(b * MB)>>)])
      : sec \in { 60 * mins + 30 : mins \in 0..MaxMinutes } \cup { 60 * mins : mins \in 0..MaxMinutes },
        b \in {0, 30, 50, 51, 60, 100, 101, 120, 200, 201} }

\* one row more than analyze_top_queries keeps, with equal total times among
\* the first rows and among the last ones
TieTimes ==
    { <<a, b, 20, 19, 18, 17, 16, 15, c, d, e>> : a, b \in {30, 31}, c, d, e \in {5, 6} }

QueryIds == <<"q1", "q2", "q3", "q4", "q5", "q6", "q7", "q8", "q9", "q10", "q11">>

QueryBooks ==
    { Book([top_statements |->
              TableOf([i \in 1..(TopQueriesN + 1) |->
                         StmtRow(QueryIds[i], t[i], IF i <= 2 THEN 4 ELSE 0)]),
            queries |-> TableOf(<<TextRow>>)])
      : t \in TieTimes }

\* more statements than analyze_top_wal_queries keeps, with wal_bytes that
\* are missing, zero, equal to one another, and large in the last row
WalBytes ==
    { <<a, b, 50, 40, 30, 20, c>> : a \in {NaN, 0, 60}, b \in {0, 10, 60}, c \in {NaN, 25, 70} }

WalQueryBooks ==
    { Book([top_statements |->
              TableOf([i \in 1..Len(w) |-> StmtRow(QueryIds[i], 20 - i, w[i])])])
      : w \in WalBytes }

\* 'dbstat' rows around the thresholds of analyze_database_stats and with no
\* transactions at all
DbStatRow(hit, commits, rollbacks, deadlocks, temp_files) ==
    [StatRow EXCEPT !.blks_hit_pct = hit, !.xact_commit = commits,
                    !.xact_rollback = rollbacks, !.deadlocks = deadlocks,
                    !.temp_files = temp_files]

DbStatRows ==
    { DbStatRow(h, cr[1], cr[2], d, t)
      : h \in {94, 95},
        cr \in { <<0, 0>>, <<95, 5>>, <<94, 6>>, <<0, 3>>, <<100, 0>> },
        d \in {0, 1}, t \in {0, 2} }

DbBooks ==
    { Book([dbstat |-> TableOf(<<r>>)]) : r \in DbStatRows }
    \cup { Book([dbstat |-> TableOf(<<DbStatRow(95, 0, 0, 0, 0), r>>)])
            : r \in { DbStatRow(95, 94, 6, 0, 0), DbStatRow(94, 0, 3, 1, 2) } }

\* statements that touched no blocks, or blocks around the 90% threshold
BlockCounts == { <<0, 0>>, <<90, 10>>, <<89, 11>>, <<0, 5>>, <<7, 0>> }

CacheBooks ==
    { Book([top_statements |->
              TableOf(<<[StmtRow("q1", 7, 0) EXCEPT !.shared_blks_hit = x[1],
                                                    !.shared_blks_read = x[2]],
                        [StmtRow("q2", 6, 0) EXCEPT !.shared_blks_hit = y[1],
                                                    !.shared_blks_read = y[2]]>>)])
      : x \in BlockCounts, y \in BlockCounts }

\* periods around whole minutes, of either sign, and cells that are no number
DurationSecs ==
    {-121, -120, -90, -61, -60, -59, -1, 0, 1, 59, 60, 119, NaN, NonNumeric}
PeriodBooks ==
    { Book([Properties |-> TableOf(<<PropsRow(sec)>>)]) : sec \in DurationSecs }
    \cup { Book([Properties |-> TableOf(<<[report_start1 |-> "t0", report_end1 |-> "t1"]>>)]) }

\* sheets with a missing numeric cell
NaNBooks ==
    { Book([dbstat |-> TableOf(<<[StatRow EXCEPT ![c] = NaN]>>)])
      : c \in {"blks_hit_pct", "xact_commit", "xact_rollback", "deadlocks", "temp_files"} }
    \cup { Book([top_statements |-> TableOf(<<[StmtRow("q1", 7, 0) EXCEPT ![c] = NaN]>>)])
            : c \in {"calls", "rows"} }
    \cup { Book([top_tables |-> TableOf(<<[TupRow(1000, 300, 0, 0) EXCEPT !.idx_scan = NaN]>>)]) }
    \cup { Book([top_tables |-> TableOf(<<r>>)])
            : r \in { TupRow(1000, NaN, 300, 101), TupRow(1000, 300, NaN, 101),
                      TupRow(20000, 5000, 5000, NaN) } }

\* files that fail: missing, unreadable, a sheet that does not read, a report
\* file that cannot be opened or written
FailBooks ==
    { [Book(FullWorkbook) EXCEPT !.exists = FALSE],
      [Book(FullWorkbook) EXCEPT !.corrupt = TRUE],
      [Book(FullWorkbook) EXCEPT !.bad = {"dbstat", "queries"}],
      [Book(FullWorkbook) EXCEPT !.io = "open"],
      [Book(FullWorkbook) EXCEPT !.io = "write"] }

OldReport == [exists |-> TRUE, lines |-> <<L("old")>>]

(***************************************************************************)
(* Batches: the files on disk and the argument lists of main               *)
(***************************************************************************)
Files == {"default", "f1", "f2"}

OkBook == Book(FullWorkbook)
MissingBook == [OkBook EXCEPT !.exists = FALSE]

\* a workbook whose 'top_statements' sheet has no total time column
NoTimeBook ==
    Book([FullWorkbook EXCEPT !.top_statements = DropCols(@, {"total_exec_time"})])

HtmlFile(text, obj) == [exists |-> TRUE, content |-> text, data |-> obj]
MissingHtml == [exists |-> FALSE, content |-> <<>>, data |-> NoData]

OkContent == <<"<", "c", "o">> \o start_marker \o <<"{", "}", "<">>
NoMarkerContent == <<"<", "c", "o", "{", "}">>
TruncatedContent == start_marker \o <<"{">>
\* a string that is never closed, and a balanced span that is no JSON
UnterminatedContent == start_marker \o <<"{", DQ, "a", "}">>
InvalidJsonContent == start_marker \o <<"{", "a", "}", "<">>
UnparseableContents ==
    {NoMarkerContent, TruncatedContent, UnterminatedContent, InvalidJsonContent}

\* a workbook left by an earlier run
OldBook == [state |-> "saved", sheets |-> <<"old">>]

DatasetNames == <<"d1", "d2", "d3">>
DatasetKinds == {"ok", "empty", "bad_normalize", "bad_write"}

\* what save_to_excel is given: up to MaxDatasets datasets
DataChoices ==
    { [properties |-> pr,
       datasets |-> [i \in 1..Len(ks) |-> [name |-> DatasetNames[i], kind |-> ks[i]]],
       sections |-> se]
      : pr \in {"absent", "ok", "bad"},
        ks \in SeqsUpTo(DatasetKinds, MaxDatasets),
        se \in {"absent", "ok", "bad"} }

OkData ==
    [properties |-> "ok", datasets |-> <<[name |-> "d1", kind |-> "ok"]>>,
     sections |-> "ok"]

OkHtml == HtmlFile(OkContent, OkData)

\* the arguments main can be given for the files fs: a file name, a pattern
\* that matches nothing, a pattern that matches the existing files (glob.glob
\* returns them in any order)
ArgChoices(fs) ==
    { [glob |-> FALSE, name |-> f, matches |-> <<>>] : f \in {"f1", "f2"} }
    \cup { [glob |-> TRUE, name |-> "*.none", matches |-> <<>>] }
    \cup { [glob |-> TRUE, name |-> "f*", matches |-> m]
           : m \in Perms({ f \in {"f1", "f2"} : fs[f].exists }) }

PlainArgs == <<[glob |-> FALSE, name |-> "f1", matches |-> <<>>],
               [glob |-> FALSE, name |-> "f2", matches |-> <<>>]>>

Disk(d, x, y) == [f \in Files |-> IF f = "default" THEN d ELSE IF f = "f1" THEN x ELSE y]

(***************************************************************************)
(* Specifications                                                          *)
(***************************************************************************)
ScanIdle ==
    /\ content = <<>> /\ inputObj = <<>> /\ spc = "idle"
    /\ start_idx = 0 /\ idx = 0 /\ brace_count = 0
    /\ in_string = FALSE /\ escape_next = FALSE /\ end_idx = 0
    /\ data_str = <<>>

\* a text with the marker and a well-formed object after it, a text without
\* the marker, a text that ends inside the object, or a text with the marker
\* and no JSON after it
InitScan ==
    /\ \/ \E p \in Prefixes, o \in JsonObjects(MaxDepth) \cup ExampleObjects,
             t \in Trails(MaxTrail), m \in {"object", "no_marker", "truncated"} :
             /\ content = IF m = "object" THEN p \o start_marker \o o \o t
                          ELSE IF m = "no_marker" THEN p \o o \o t
                          ELSE p \o start_marker \o SubSeq(o, 1, Len(o) - 1)
             /\ inputObj = IF m = "object" THEN o ELSE <<>>
       \/ \E p \in Prefixes, x \in MalformedTexts, t \in Trails(MaxTrail) :
             /\ content = p \o start_marker \o x \o t
             /\ inputObj = <<>>
    /\ spc = "find"
    /\ start_idx = 0 /\ idx = 0 /\ brace_count = 0
    /\ in_string = FALSE /\ escape_next = FALSE /\ end_idx = 0
    /\ data_str = <<>>
    /\ XlIdle /\ HtmlIdle /\ MainIdle
    /\ open = {} /\ ret = "none"

\* one call of process_excel_file on one workbook
InitReport ==
    /\ \E b \in ColumnBooks \cup SheetBooks \cup TableBooks \cup WalBooks
                 \cup QueryBooks \cup FailBooks \cup ManyTableBooks
                 \cup TextBooks \cup WalQueryBooks \cup DbBooks
                 \cup CacheBooks \cup NaNBooks \cup PeriodBooks :
          xlsx = ("f1" :> b)
    /\ \E r \in {NoReport, OldReport} : reports = ("f1" :> r)
    /\ cur = "f1" /\ ppc = "start"
    /\ sheet_names = <<>> /\ loadi = 0 /\ sheets = <<>>
    /\ metrics = NoMetrics /\ pending = FALSE
    /\ open = {} /\ ret = "none"
    /\ ScanIdle /\ HtmlIdle /\ MainIdle

NextScan ==
    \/ FindMarker
    \/ ScanStep
    \/ ScanExhausted
    \/ Decode

SpecScan == InitScan /\ [][NextScan]_vars

NextReport == ProcessExcel

SpecReport == InitReport /\ [][NextReport]_vars

\* main of analyze_db_report.py: no argument and the default file, any
\* argument list over two files, or two named files of which the first is
\* any of the failing or passing workbooks
InitBatchExcel ==
    /\ tool = "excel"
    /\ \/ \E d \in {OkBook, MissingBook} :
             /\ xlsx = Disk(d, OkBook, OkBook)
             /\ argv = <<>>
       \/ \E x \in {OkBook, MissingBook}, y \in {OkBook, [OkBook EXCEPT !.corrupt = TRUE]} :
             /\ xlsx = Disk(MissingBook, x, y)
             /\ argv \in SeqsUpTo(ArgChoices(xlsx), MaxArgs) \ { <<>> }
       \/ /\ \E x \in FailBooks \cup {OkBook, NoTimeBook} :
                xlsx = Disk(MissingBook, x, OkBook)
          /\ argv = PlainArgs
    /\ reports = [f \in Files |-> NoReport]
    /\ html = <<>> /\ outbooks = <<>>

\* main of parse_html_to_excel.py
InitBatchHtml ==
    /\ tool = "html"
    /\ \/ \E d \in {OkHtml, MissingHtml} :
             /\ html = Disk(d, OkHtml, OkHtml)
             /\ argv = <<>>
       \/ \E x \in {OkHtml, MissingHtml}, y \in {OkHtml, HtmlFile(NoMarkerContent, NoData)} :
             /\ html = Disk(MissingHtml, x, y)
             /\ argv \in SeqsUpTo(ArgChoices(html), MaxArgs) \ { <<>> }
       \/ /\ \E x \in { HtmlFile(OkContent, o) : o \in DataChoices }
                       \cup { HtmlFile(c, NoData) : c \in UnparseableContents } :
                html = Disk(MissingHtml, x, OkHtml)
          /\ argv = PlainArgs
    /\ \/ outbooks = [f \in Files |-> NoBook]
       \/ /\ argv = PlainArgs
          /\ html["f1"] \in {OkHtml} \cup { HtmlFile(c, NoData) : c \in UnparseableContents }
          /\ outbooks = [f \in Files |-> IF f = "f1" THEN OldBook ELSE NoBook]
    /\ xlsx = <<>> /\ reports = <<>>

InitBatch ==
    /\ InitBatchExcel \/ InitBatchHtml
    /\ mpc = "args" /\ ai = 1
    /\ files_to_process = <<>> /\ fi = 0
    /\ success_count = 0 /\ failed_count = 0
    /\ console = <<>> /\ processed = <<>>
    /\ cur = "" /\ ppc = "idle" /\ hpc = "idle"
    /\ sheet_names = <<>> /\ loadi = 0 /\ sheets = <<>>
    /\ metrics = NoMetrics /\ pending = FALSE
    /\ data = NoData /\ di = 0 /\ book = <<>>
    /\ open = {} /\ ret = "none"
    /\ ScanIdle

NextBatch ==
    \/ Main
    \/ ProcessExcel
    \/ ProcessHtml

\* the interpreter runs the program's next statement; the collector runs
\* only while there is something to collect
SpecBatch == InitBatch /\ [][NextBatch]_vars /\ WF_vars(NextBatch)

(***************************************************************************)
(* C1: when 'const data=' is immediately followed by a well-formed JSON    *)
(* object and then arbitrary text, the span extract_data_from_html cuts    *)
(* out is exactly that object: braces inside string values neither change  *)
(* the depth nor end the extraction early.                                 *)
(***************************************************************************)
C1_ExactSpan ==
    (inputObj # <<>> /\ spc \in {"slice", "returned", "raised"})
        => /\ Slice(content, start_idx, end_idx) = inputObj
           /\ spc # "raised"
           /\ (spc = "returned" => data_str = inputObj)

\* an object with a brace inside a string value, followed by text with a
\* closing brace, has been extracted
C1_Witness ==
    /\ spc = "returned"
    /\ inputObj = <<"{", DQ, "a", DQ, ":", DQ, "}", DQ, ",", DQ, "}", DQ, ":", "1", "}">>
    /\ Len(content) > end_idx
    /\ content[Len(content)] = "}"

(***************************************************************************)
(* Reading the state of a finished process_excel_file call                 *)
(***************************************************************************)
Written == IF cur \in DOMAIN reports THEN reports[cur].lines ELSE <<>>
Kinds(lines) == { lines[i].k : i \in 1..Len(lines) }
KindSeq(lines) == [i \in 1..Len(lines) |-> lines[i].k]
ReturnedTrue == ppc = "returned" /\ ret = "True"

\* the lines of the n-th entry that starts with a line of kind k: from that
\* line up to the next "hr" line
NthStart(lines, k, n, from) ==
    LET S == { i \in from..Len(lines) :
                 /\ lines[i].k = k
                 /\ Cardinality({ j \in from..i : lines[j].k = k }) = n }
    IN  IF S = {} THEN 0 ELSE CHOOSE i \in S : TRUE

RECURSIVE UpToHr(_, _)
UpToHr(lines, from) ==
    IF from > Len(lines) \/ lines[from].k = "hr" THEN <<>>
    ELSE <<lines[from]>> \o UpToHr(lines, from + 1)

Entry(lines, k, n) ==
    LET st == NthStart(lines, k, n, 1) IN
    IF st = 0 THEN <<>> ELSE UpToHr(lines, st)

(***************************************************************************)
(* C2: analyze_top_queries is stable under ties: two selected rows with    *)
(* equal total time keep the order they have in the sheet, and among rows  *)
(* tied at the cut the earlier rows of the sheet are the ones kept.        *)
(***************************************************************************)
C2_StableUnderTies ==
    (ppc \in {"open", "write", "close", "finish"} /\ "top_statements" \in DOMAIN sheets)
        => LET tq == metrics.top_queries
               df == sheets["top_statements"]
               time_col == IF "total_exec_time" \in df.cols
                           THEN "total_exec_time" ELSE "total_time"
               rows == df.rows
               kept == { tq[k].row : k \in 1..Len(tq) }
           IN  /\ \A i, j \in 1..Len(tq) :
                     (i < j /\ tq[i].total_time = tq[j].total_time)
                         => tq[i].row < tq[j].row
               /\ \A k \in kept, e \in (1..Len(rows)) \ kept :
                     rows[e][time_col] = rows[k][time_col] => k < e

(***************************************************************************)
(* C3: absent columns never fail a run: when every expected sheet is       *)
(* present and non-empty, whatever columns are absent from it,             *)
(* process_excel_file returns True and the whole report is written.        *)
(***************************************************************************)
AllSheetsReadable(b) ==
    /\ b.exists /\ ~b.corrupt /\ b.bad = {} /\ b.io = "none"
    /\ Range(b.names) = SheetNames
    /\ \A n \in SheetNames : ~IsEmpty(b.data[n])

C3_AbsentColumnsNeverFail ==
    (ppc = "returned" /\ AllSheetsReadable(xlsx[cur]))
        => /\ ret = "True"
           /\ Written = ReportLines(metrics)

(***************************************************************************)
(* C4 as stated: on a workbook with only a 'Properties' sheet the report   *)
(* has every section header of the fixed order (title, period, databases,  *)
(* WAL, top queries, problem tables, unused indexes, summary, footer).     *)
(***************************************************************************)
OnlyProperties == cur \in DOMAIN xlsx /\ xlsx[cur].names = <<"Properties">>

C4_AllHeaders ==
    (ReturnedTrue /\ OnlyProperties)
        => {"h1_title", "h2_period", "h2_db", "h2_wal", "h2_top_queries",
            "h2_tables", "h2_indexes", "h2_summary", "h2_footer"} \subseteq Kinds(Written)

(***************************************************************************)
(* C4 amended: on a workbook with only a 'Properties' sheet the report is  *)
(* complete and holds, in this order, the title, the period, the database  *)
(* header (with nothing under it), the WAL header with its 'data           *)
(* unavailable' placeholder, the top-queries header with its placeholder,  *)
(* the summary with its three default items and the footer; the            *)
(* problem-tables and unused-indexes sections are left out, headers        *)
(* included.                                                               *)
(***************************************************************************)
C4_OnlyPropertiesReport ==
    (ReturnedTrue /\ OnlyProperties)
        => KindSeq(Written) =
             <<"h1_title", "date", "h2_period", "cell", "cell", "cell", "hr",
               "h2_db", "hr",
               "h2_wal", "wal_unavailable", "hr",
               "h2_top_queries", "queries_unavailable",
               "h2_summary", "h3_good", "good_stable", "h3_critical", "crit_none",
               "h3_recommendations", "sum_none",
               "hr", "h2_footer", "footer_source", "footer_tools", "footer_method",
               "footer_generated">>

C4_Witness ==
    /\ ReturnedTrue /\ OnlyProperties
    /\ "Properties" \in DOMAIN sheets
    /\ "h2_footer" \in Kinds(Written)

(***************************************************************************)
(* C9: a 'top_tables' row gets the bloat finding exactly when              *)
(* live_tuples > 0 and dead_tuples / live_tuples * 100 > 20, and the entry *)
(* rendered for a table holds the line VACUUM ANALYZE <schema>.<table>     *)
(* exactly when the table has the bloat finding; a row with a dead ratio   *)
(* of at most 20% gets neither.                                            *)
(***************************************************************************)
\* dead / live > 20 / 100, in integers
Bloated(r) ==
    LET live == Get(r, "n_live_tup", 0)
        dead == Get(r, "n_dead_tup", 0)
    IN  live > 0 /\ dead * 5 > live

HasVacuumLine(entry, t) ==
    \E i \in 1..Len(entry) :
        /\ entry[i].k = "rec_vacuum_analyze"
        /\ entry[i].x = t.schema /\ entry[i].y = t.table

HasIssueLine(entry, issue) ==
    \E i \in 1..Len(entry) : entry[i].k = "issue" /\ entry[i].x = issue

C9_BloatRule ==
    (ReturnedTrue /\ "top_tables" \in DOMAIN sheets)
        => LET rows == sheets["top_tables"].rows
               pt == metrics.problem_tables
           IN  /\ \A k \in 1..Len(pt) :
                     LET entry == Entry(Written, "h3_table", k) IN
                     /\ entry # <<>>
                     /\ ("bloat" \in Range(pt[k].issues)) = Bloated(rows[pt[k].row])
                     /\ HasIssueLine(entry, "bloat") = Bloated(rows[pt[k].row])
                     /\ HasVacuumLine(entry, pt[k]) = Bloated(rows[pt[k].row])
               \* a row that is not among the problem tables is not bloated
               /\ \A i \in 1..Len(rows) :
                     (Len(rows) <= TopTablesN /\ Bloated(rows[i]))
                         => \E k \in 1..Len(pt) : pt[k].row = i

\* the spec's two rows, 30% and 10% dead, in one sheet: one entry with the
\* VACUUM ANALYZE line, none for the other row
C9_Witness ==
    /\ ReturnedTrue
    /\ "top_tables" \in DOMAIN sheets
    /\ LET rows == sheets["top_tables"].rows IN
         /\ Len(rows) = 2
         /\ rows[1] = TupRow(1000, 300, 0, 0)
         /\ rows[2] = TupRow(1000, 100, 0, 0)
    /\ Len(metrics.problem_tables) = 1
    /\ HasVacuumLine(Entry(Written, "h3_table", 1), metrics.problem_tables[1])

(***************************************************************************)
(* C10: with WAL statistics present and rate = size_mb / duration for      *)
(* duration > 0, rate = 0 for duration = 0, the report holds exactly one   *)
(* of the three classifications: high iff rate > 100, moderate iff         *)
(* 50 < rate <= 100, normal iff rate <= 50.                                *)
(***************************************************************************)
WalClassLines ==
    [i \in 1..Len(SelectSeq(Written, LAMBDA l : l.k \in {"wal_high", "wal_moderate", "wal_normal"}))
       |-> SelectSeq(Written, LAMBDA l : l.k \in {"wal_high", "wal_moderate", "wal_normal"})[i].k]

C10_WalRateClass ==
    (ReturnedTrue /\ "wal_stats" \in DOMAIN sheets /\ ~IsEmpty(sheets["wal_stats"])
       /\ metrics.period.duration >= 0)
        => LET bytes == Get(sheets["wal_stats"].rows[1], "wal_bytes", 0)
               duration == metrics.period.duration
               \* rate > k  <=>  bytes / 2^20 / duration > k
               RateGt(k) == duration > 0 /\ bytes > k * duration * 1048576
           IN  WalClassLines =
                 << IF RateGt(100) THEN "wal_high"
                    ELSE IF RateGt(50) THEN "wal_moderate"
                    ELSE "wal_normal" >>

\* the boundary values: exactly 100 MB/min is moderate, exactly 50 is
\* normal, and a period of 0 minutes is normal
C10_Witness ==
    /\ ReturnedTrue
    /\ "wal_stats" \in DOMAIN sheets
    /\ Get(sheets["wal_stats"].rows[1], "wal_bytes", 0) = 100 * 1048576
    /\ metrics.period.duration = 1
    /\ WalClassLines = <<"wal_moderate">>


(***************************************************************************)
(* C5: for every argument list, also one whose patterns match no file,     *)
(* main runs to completion and has printed the final success/failure tally *)
(* when it ends.                                                           *)
(***************************************************************************)
C5_TallyWhenDone == mpc = "done" => "tally" \in Range(console)

Count(seq, x) == Cardinality({ i \in 1..Len(seq) : seq[i] = x })

\* C5 as the code has it: main always runs to completion; every argument is
\* looked at, a pattern without a match costs one warning and nothing else;
\* the tally is the last thing printed when at least one file was resolved,
\* and when none was, main prints the 'no files' error and the help and ends
\* without a tally.
C5_CompletesTallyIfFiles ==
    /\ <>(mpc = "done")
    /\ [](mpc = "done" =>
            /\ argv # <<>> => ai = Len(argv) + 1
            /\ \A i \in 1..Len(argv) :
                  IF argv[i].glob
                  THEN Range(argv[i].matches) \subseteq Range(files_to_process)
                  ELSE argv[i].name \in Range(files_to_process)
            /\ Count(console, "warning")
                 = Cardinality({ i \in 1..Len(argv) :
                                   argv[i].glob /\ argv[i].matches = <<>> })
            /\ IF files_to_process # <<>>
               THEN /\ console[Len(console)] = "tally"
                    /\ Count(console, "tally") = 1
                    /\ Len(processed) = Len(files_to_process)
               ELSE /\ "tally" \notin Range(console)
                    /\ "no_files" \in Range(console))

\* a batch with a pattern that matched nothing and a file that was processed
\* has ended with the tally
C5_Witness ==
    /\ mpc = "done"
    /\ "warning" \in Range(console)
    /\ console[Len(console)] = "tally"
    /\ success_count >= 1

(***************************************************************************)
(* C6: every resource opened during a stage (the workbook reader of        *)
(* load_data, the report file of generate_markdown_report, the HTML file   *)
(* of extract_data_from_html, the workbook writer of save_to_excel) is     *)
(* closed when the stage ends, and no handle is open once the processing   *)
(* of a file has finished.                                                 *)
(***************************************************************************)
C6_ClosedAtStageEnd ==
    /\ ppc \notin {"load", "load_loop"} => "reader" \notin open
    /\ ppc \notin {"write", "close"} => "report" \notin open
    /\ hpc # "reading" => "html" \notin open
    /\ hpc \notin {"save_properties", "save_datasets", "save_close"} => "writer" \notin open
    /\ (ppc \in {"idle", "returned"} /\ hpc \in {"idle", "returned"}) => open = {}

(***************************************************************************)
(* C7: per-sheet and per-dataset failures are skipped, never fatal: after  *)
(* load_data the workbook holds exactly the sheets that read without       *)
(* error; when a dataset or the sections fail in save_to_excel the other   *)
(* datasets and the sections are still written and the file is reported as *)
(* processed successfully.                                                 *)
(***************************************************************************)
SomeDatasetFailed(d) ==
    \/ \E i \in 1..Len(d.datasets) : d.datasets[i].kind \in {"bad_normalize", "bad_write"}
    \/ d.sections = "bad"

C7_SkippedNeverFatal ==
    /\ (tool = "excel" /\ ppc \in {"extract", "open", "write", "close", "finish"})
         => DOMAIN sheets = { n \in Range(xlsx[cur].names) : n \notin xlsx[cur].bad }
    /\ (tool = "html" /\ hpc = "returned" /\ outbooks[cur].state # "absent"
          /\ html[cur].data.properties # "bad" /\ SomeDatasetFailed(html[cur].data))
         => /\ ret = "True"
            /\ outbooks[cur].state = "saved"
            /\ \A i \in 1..Len(html[cur].data.datasets) :
                  html[cur].data.datasets[i].kind = "ok"
                    => html[cur].data.datasets[i].name \in Range(outbooks[cur].sheets)
            /\ html[cur].data.sections = "ok" => "Sections" \in Range(outbooks[cur].sheets)

(***************************************************************************)
(* C8: a missing input file or an exception while loading, analysing or    *)
(* rendering makes process_excel_file return False and the loop goes on    *)
(* with the next file; the files of the resolved list are processed once   *)
(* each, in list order, success_count + failed_count is the number of      *)
(* files processed and failed_count is the number of calls that returned   *)
(* False.                                                                  *)
(***************************************************************************)
Fatal(b) == ~b.exists \/ b.corrupt \/ b.io # "none" \/ b = NoTimeBook

C8_BatchCounts ==
    /\ (tool = "excel" /\ ppc = "returned" /\ Fatal(xlsx[cur])) => ret = "False"
    /\ (tool = "excel" /\ ppc = "returned") => ret \in {"True", "False"}
    /\ Len(processed) <= Len(files_to_process)
    /\ \A i \in 1..Len(processed) : processed[i].file = files_to_process[i]
    /\ mpc \in {"loop", "call"} => Len(processed) = fi - 1
    /\ success_count + failed_count = Len(processed)
    /\ failed_count = Cardinality({ i \in 1..Len(processed) : processed[i].result = "False" })
    /\ (mpc = "done" /\ files_to_process # <<>>) => Len(processed) = Len(files_to_process)

\* a batch of two workbooks has ended: the first failed, the second was
\* processed after it
C8_Witness ==
    /\ tool = "excel"
    /\ mpc = "done"
    /\ Len(processed) = 2
    /\ processed[1].result = "False"
    /\ processed[2].result = "True"
    /\ failed_count = 1
    /\ success_count = 1


(***************************************************************************)
(* C11: the result of analyze_tables holds only tables with a finding, at  *)
(* most 10 of them, in order of non-increasing finding count, tables of    *)
(* equal count in the row order of the sheet; no table with more findings  *)
(* than a retained one is dropped.                                         *)
(***************************************************************************)
\* n_mod_since_analyze > n_live_tup * 0.2, in integers
NeedsAnalyze(r) ==
    LET live == Get(r, "n_live_tup", 0) IN
    live > 0 /\ Get(r, "n_mod_since_analyze", 0) * 5 > live

SeqScanned(r) == Get(r, "seq_scan", 0) > 100 /\ Get(r, "n_live_tup", 0) > 10000

FindingCount(r) ==
    (IF Bloated(r) THEN 1 ELSE 0) + (IF NeedsAnalyze(r) THEN 1 ELSE 0)
        + (IF SeqScanned(r) THEN 1 ELSE 0)

Extracted == ppc \in {"open", "write", "close", "finish"}

C11_TablesTopN ==
    (Extracted /\ "top_tables" \in DOMAIN sheets)
        => LET rows == sheets["top_tables"].rows
               pt == metrics.problem_tables
               kept == { pt[k].row : k \in 1..Len(pt) }
               problems == { i \in 1..Len(rows) : FindingCount(rows[i]) > 0 }
           IN  /\ Len(pt) <= TopTablesN
               /\ kept \subseteq problems
               /\ Cardinality(kept) = Len(pt)
               /\ Len(pt) = IF Cardinality(problems) < TopTablesN
                            THEN Cardinality(problems) ELSE TopTablesN
               /\ \A k \in 1..Len(pt) : Len(pt[k].issues) = FindingCount(rows[pt[k].row])
               /\ \A j, k \in 1..Len(pt) :
                     j < k => \/ Len(pt[j].issues) > Len(pt[k].issues)
                              \/ /\ Len(pt[j].issues) = Len(pt[k].issues)
                                 /\ pt[j].row < pt[k].row
               /\ \A i \in problems \ kept, k \in kept :
                     \/ FindingCount(rows[i]) < FindingCount(rows[k])
                     \/ FindingCount(rows[i]) = FindingCount(rows[k]) /\ k < i

\* twelve rows with findings: the eleventh, with three findings, is kept as
\* the first table and rows of one finding are dropped; the first two rows,
\* of one finding each, stay in sheet order
C11_Witness ==
    /\ Extracted
    /\ "top_tables" \in DOMAIN sheets
    /\ Len(sheets["top_tables"].rows) = 12
    /\ Len(metrics.problem_tables) = TopTablesN
    /\ metrics.problem_tables[1].row = 11
    /\ \E k \in 1..(TopTablesN - 1) :
          /\ metrics.problem_tables[k].row = 1
          /\ metrics.problem_tables[k + 1].row = 2


(***************************************************************************)
(* C12: for a query id listed in 'queries' with a non-empty text the       *)
(* preview is the first 50 characters of the text after every run of       *)
(* whitespace has been replaced by one space, with the suffix '...' iff    *)
(* that text is longer than 50 characters; for an id that is not listed    *)
(* the preview is "N/A" and the suffix is empty.                           *)
(***************************************************************************)
\* the elements of a set of indices of s, in order, whitespace as a space
Pick(s, K) ==
    [n \in 1..Cardinality(K) |->
        LET i == CHOOSE i \in K : Cardinality({ j \in K : j <= i }) = n
        IN  IF IsWs(s[i]) THEN " " ELSE s[i]]

\* every run of whitespace replaced by one space
RunsToSpace(s) ==
    Pick(s, { i \in 1..Len(s) : ~IsWs(s[i]) \/ i = 1 \/ ~IsWs(s[i - 1]) })

\* the same without the whitespace at the start and at the end of the text
RunsToSpaceStripped(s) ==
    Pick(s, { i \in 1..Len(s) :
                \/ ~IsWs(s[i])
                \/ /\ i > 1 /\ ~IsWs(s[i - 1])
                   /\ \E j \in (i + 1)..Len(s) : ~IsWs(s[j]) })

First50(c) == SubSeq(c, 1, IF Len(c) < 50 THEN Len(c) ELSE 50)

NAText == <<"N", "/", "A">>

\* the rows of 'queries' that list the id
Listed(id) ==
    IF "queries" \in DOMAIN sheets /\ ~IsEmpty(sheets["queries"])
    THEN { i \in 1..Len(sheets["queries"].rows) :
             Get(sheets["queries"].rows[i], "hexqueryid", NA) = id }
    ELSE {}

TextOf(id) ==
    LET first == CHOOSE i \in Listed(id) : \A j \in Listed(id) : i <= j
    IN  Get(sheets["queries"].rows[first], "query_texts", <<>>)

C12_PreviewOfCollapsed ==
    Extracted =>
        \A k \in 1..Len(metrics.top_queries) :
            LET q == metrics.top_queries[k] IN
            IF Listed(q.query_id) = {}
            THEN q.query_preview = NAText /\ q.query_preview_suffix = ""
            ELSE TextOf(q.query_id) # <<>>
                   => LET c == RunsToSpace(TextOf(q.query_id)) IN
                      /\ q.query_preview = First50(c)
                      /\ (q.query_preview_suffix = "...") = (Len(c) > 50)
                      /\ q.query_preview_suffix \in {"", "..."}

\* C12 as the code has it: the text is that of the first row listing the id;
\* whitespace at its start and end is dropped and every other run becomes
\* one space; a text that is empty then (missing, empty or whitespace only)
\* gives "N/A" and no suffix, as an id that is not listed does.
C12_PreviewOfStripped ==
    Extracted =>
        \A k \in 1..Len(metrics.top_queries) :
            LET q == metrics.top_queries[k]
                c == IF Listed(q.query_id) = {} THEN <<>>
                     ELSE RunsToSpaceStripped(TextOf(q.query_id))
            IN  /\ q.query_preview = IF c = <<>> THEN NAText ELSE First50(c)
                /\ q.query_preview_suffix = IF Len(c) > 50 THEN "..." ELSE ""

\* a text of 51 characters after collapsing has a preview of 50 and the
\* suffix; the statement that is not listed has "N/A"
C12_Witness ==
    /\ Extracted
    /\ Len(metrics.top_queries) = 2
    /\ Listed("q1") # {}
    /\ Len(TextOf("q1")) = 53
    /\ Len(RunsToSpaceStripped(TextOf("q1"))) = 51
    /\ Len(metrics.top_queries[1].query_preview) = 50
    /\ metrics.top_queries[1].query_preview[2] = " "
    /\ metrics.top_queries[1].query_preview_suffix = "..."
    /\ metrics.top_queries[2].query_preview = NAText


(***************************************************************************)
(* C13: without a wal_bytes column in 'top_statements' the result of       *)
(* analyze_top_wal_queries is empty and nothing is raised; with it, the    *)
(* result holds only rows whose wal_bytes is present and > 0, in           *)
(* descending order of wal_bytes, at most 5 of them, and no row that was   *)
(* left out has more wal_bytes than a row that was kept.                   *)
(***************************************************************************)
C13_TopWalQueries ==
    /\ (ppc = "extract" /\ "top_statements" \in DOMAIN sheets
          /\ "wal_bytes" \notin sheets["top_statements"].cols)
         => analyze_top_wal_queries(sheets, TopWalN) = { [raised |-> FALSE, val |-> <<>>] }
    /\ (Extracted /\ "top_statements" \in DOMAIN sheets)
         => LET df == sheets["top_statements"]
                tw == metrics.top_wal_queries
                kept == { tw[k].row : k \in 1..Len(tw) }
                wal(i) == df.rows[i]["wal_bytes"]
                qualifying == IF "wal_bytes" \in df.cols
                              THEN { i \in 1..Len(df.rows) : wal(i) # NaN /\ wal(i) > 0 }
                              ELSE {}
            IN  /\ kept \subseteq qualifying
                /\ Cardinality(kept) = Len(tw)
                /\ Len(tw) = IF Cardinality(qualifying) < TopWalN
                             THEN Cardinality(qualifying) ELSE TopWalN
                /\ \A k \in 1..Len(tw) : tw[k].wal_bytes = wal(tw[k].row)
                /\ \A j, k \in 1..Len(tw) : j < k => tw[j].wal_bytes >= tw[k].wal_bytes
                /\ \A i \in qualifying \ kept, k \in kept : wal(i) <= wal(k)

\* seven statements of which six qualify (one has no wal_bytes): the last
\* row, with the most wal_bytes, comes first and the row with the least is
\* left out
C13_Witness ==
    /\ Extracted
    /\ "top_statements" \in DOMAIN sheets
    /\ Len(sheets["top_statements"].rows) = 7
    /\ sheets["top_statements"].rows[1]["wal_bytes"] = NaN
    /\ sheets["top_statements"].rows[2]["wal_bytes"] = 10
    /\ Len(metrics.top_wal_queries) = TopWalN
    /\ metrics.top_wal_queries[1].row = 7
    /\ metrics.top_wal_queries[1].wal_bytes = 70
    /\ \A k \in 1..TopWalN : metrics.top_wal_queries[k].row # 2


(***************************************************************************)
(* C14: for every 'dbstat' row rollback_ratio is                           *)
(* rollbacks / (commits + rollbacks) * 100 when commits + rollbacks > 0    *)
(* and 0 when commits + rollbacks = 0 (no division by zero); it lies in    *)
(* [0, 100] when the counts are not negative.                              *)
(***************************************************************************)
C14_RollbackRatio ==
    (Extracted /\ "dbstat" \in DOMAIN sheets)
        => LET rows == sheets["dbstat"].rows IN
           /\ Len(metrics.db_stats) = Len(rows)
           /\ \A i \in 1..Len(rows) :
                 LET c == Get(rows[i], "xact_commit", 0)
                     r == Get(rows[i], "xact_rollback", 0)
                     ratio == metrics.db_stats[i].rollback_ratio
                 IN  (c # NaN /\ r # NaN) =>
                       /\ ratio.den > 0
                       /\ c + r > 0 => ratio.num * (c + r) = r * 100 * ratio.den
                       /\ c + r = 0 => ratio.num = 0
                       /\ (c >= 0 /\ r >= 0) => (0 <= ratio.num /\ ratio.num <= 100 * ratio.den)

\* a sheet with a database without transactions (ratio 0) and one with 6
\* rollbacks in 100 transactions (ratio 6)
C14_Witness ==
    /\ Extracted
    /\ "dbstat" \in DOMAIN sheets
    /\ Len(sheets["dbstat"].rows) = 2
    /\ sheets["dbstat"].rows[1]["xact_commit"] = 0
    /\ sheets["dbstat"].rows[1]["xact_rollback"] = 0
    /\ metrics.db_stats[1].rollback_ratio.num = 0
    /\ sheets["dbstat"].rows[2]["xact_rollback"] = 6
    /\ metrics.db_stats[2].rollback_ratio.num = 6 * metrics.db_stats[2].rollback_ratio.den


(***************************************************************************)
(* C15: for every selected query row cache_ratio is                        *)
(* shared_blks_hit / (shared_blks_hit + shared_blks_read) * 100 when the   *)
(* sum is > 0 and 100 when both are 0, so that a query that touched no     *)
(* blocks never has the 'low cache hit' finding.                           *)
(***************************************************************************)
C15_QueryCacheRatio ==
    (Extracted /\ "top_statements" \in DOMAIN sheets)
        => \A k \in 1..Len(metrics.top_queries) :
              LET q == metrics.top_queries[k]
                  row == sheets["top_statements"].rows[q.row]
                  hit == Get(row, "shared_blks_hit", 0)
                  read == Get(row, "shared_blks_read", 0)
              IN  /\ q.cache_ratio.den > 0
                  /\ hit + read > 0
                       => q.cache_ratio.num * (hit + read) = hit * 100 * q.cache_ratio.den
                  /\ (hit = 0 /\ read = 0)
                       => /\ q.cache_ratio.num = 100 * q.cache_ratio.den
                          /\ "low_cache_hit" \notin Range(q.issues)
                  /\ ("low_cache_hit" \in Range(q.issues))
                       = (q.cache_ratio.num < 90 * q.cache_ratio.den)

\* two statements: one touched no blocks and has ratio 100 and no finding,
\* the other hit 89 blocks of 100 and has the finding
C15_Witness ==
    /\ Extracted
    /\ "top_statements" \in DOMAIN sheets
    /\ Len(metrics.top_queries) = 2
    /\ LET rows == sheets["top_statements"].rows IN
         /\ rows[1]["shared_blks_hit"] = 0 /\ rows[1]["shared_blks_read"] = 0
         /\ rows[2]["shared_blks_hit"] = 89 /\ rows[2]["shared_blks_read"] = 11
    /\ metrics.top_queries[1].row = 1
    /\ metrics.top_queries[1].cache_ratio = Frac(100, 1)
    /\ metrics.top_queries[1].issues = <<>>
    /\ metrics.top_queries[2].issues = <<"low_cache_hit">>


(***************************************************************************)
(* C16: a numeric metric whose value is missing (NaN) is written to the    *)
(* report as an empty cell: no cell of the report's metric tables holds    *)
(* the text 'nan'.                                                         *)
(***************************************************************************)
C16_NoNaNCell ==
    ReturnedTrue =>
        \A i \in 1..Len(Written) : Written[i].k = "cell" => Written[i].y # "nan"


\* the first row of the loaded 'Properties' sheet
PropsLoaded == ~IsEmpty(SheetGet(sheets, "Properties"))
PropsFirst == SheetGet(sheets, "Properties").rows[1]
HasSeconds ==
    /\ "interval_duration_sec" \in DOMAIN PropsFirst
    /\ PropsFirst["interval_duration_sec"] \notin {NaN, NonNumeric}

\* C17 as stated: the duration is the quotient rounded down, also for
\* negative numbers of seconds
C17_DurationIsFloor ==
    (Extracted /\ PropsLoaded /\ HasSeconds)
        => LET sec == PropsFirst["interval_duration_sec"]
               d == metrics.period.duration
           IN  60 * d <= sec /\ sec < 60 * d + 60

(***************************************************************************)
(* C17: the duration in minutes is interval_duration_sec / 60 with the     *)
(* fraction dropped (rounded toward zero: down for a non-negative number   *)
(* of seconds, up for a negative one), and 0 when the column is absent or  *)
(* the cell holds no number.                                               *)
(***************************************************************************)
C17_DurationTruncates ==
    (Extracted /\ PropsLoaded)
        => LET d == metrics.period.duration IN
           IF HasSeconds
           THEN LET sec == PropsFirst["interval_duration_sec"] IN
                IF sec >= 0
                THEN 60 * d <= sec /\ sec < 60 * d + 60
                ELSE 60 * d - 60 < sec /\ sec <= 60 * d
           ELSE d = 0

\* a period of -90 seconds extracted as -1 minute
C17_Witness ==
    /\ Extracted /\ PropsLoaded /\ HasSeconds
    /\ PropsFirst["interval_duration_sec"] = -90
    /\ metrics.period.duration = -1


\* the checks of a 'dbstat' row in the order of lines 77-87
DbRuleOrder == <<"low_cache_hit_ratio", "deadlocks", "temp_files", "high_rollback">>

\* the condition of a check on a row of the sheet (no number, no finding)
DbRuleHolds(f, row) ==
    LET Num(c) == Get(row, c, 0)
        Known(c) == Num(c) # NaN
    IN  CASE f = "low_cache_hit_ratio" -> Known("blks_hit_pct") /\ Num("blks_hit_pct") < 95
          [] f = "deadlocks" -> Known("deadlocks") /\ Num("deadlocks") > 0
          [] f = "temp_files" -> Known("temp_files") /\ Num("temp_files") > 0
          [] f = "high_rollback" ->
                /\ Known("xact_commit") /\ Known("xact_rollback")
                /\ Num("xact_commit") + Num("xact_rollback") > 0
                /\ 100 * Num("xact_rollback") > 5 * (Num("xact_commit") + Num("xact_rollback"))

DbFindingsExpected(row) ==
    LET Test(f) == DbRuleHolds(f, row) IN SelectSeq(DbRuleOrder, Test)

(***************************************************************************)
(* C18: the findings of every 'dbstat' row are exactly the checks whose    *)
(* conditions hold (cache hit % < 95, deadlocks > 0, temp files > 0,       *)
(* rollback ratio > 5), in that fixed order, each at most once, none       *)
(* suppressing another; every one of the 16 combinations is produced by    *)
(* some row.                                                               *)
(***************************************************************************)
C18_OrderedIndependentRules ==
    /\ (Extracted /\ ~IsEmpty(SheetGet(sheets, "dbstat")))
           => LET rows == SheetGet(sheets, "dbstat").rows IN
              /\ Len(metrics.db_stats) = Len(rows)
              /\ \A i \in 1..Len(rows) :
                     metrics.db_stats[i].issues = DbFindingsExpected(rows[i])
    \* the rows of the inputs produce every combination (a fact about the
    \* inputs, evaluated where a call on a 'dbstat' workbook starts)
    /\ (ppc = "start" /\ DOMAIN xlsx[cur].data = {"dbstat"})
           => \A S \in SUBSET Range(DbRuleOrder) :
                  \E row \in DbStatRows : Range(DbRow(row).issues) = S

\* a row with all four findings, reported in the fixed order
C18_Witness ==
    /\ Extracted
    /\ \E i \in 1..Len(metrics.db_stats) : metrics.db_stats[i].issues = DbRuleOrder


\* C19 as stated: the scanner has three states, the escape being pending
\* only inside a string
C19_ThreeStates == escape_next => in_string

(***************************************************************************)
(* C19: the scanner tracks a depth, whether it is inside a string and      *)
(* whether an escape is pending; a backslash makes the next character have *)
(* no effect, inside a string and outside of one, so an escaped quote does *)
(* not end the string and {"a":"a\"}","}":1} followed by text is extracted *)
(* whole; the depth changes only on a brace met outside a string with no   *)
(* escape pending, and the scan stops only at a '}' that brings the depth  *)
(* to 0.                                                                   *)
(***************************************************************************)
C19_ScannerSteps ==
    /\ []((inputObj \in ExampleObjects /\ spc \in {"returned", "raised"})
              => (spc = "returned" /\ data_str = inputObj))
    /\ [][(spc = "scan" /\ idx < Len(content))
             => LET char == content[idx + 1] IN
                /\ escape_next
                       => /\ in_string' = in_string /\ brace_count' = brace_count
                          /\ ~escape_next' /\ spc' = "scan"
                /\ (~escape_next /\ char = BS)
                       => /\ escape_next' /\ in_string' = in_string
                          /\ brace_count' = brace_count /\ spc' = "scan"
                /\ brace_count' # brace_count
                       => /\ ~in_string /\ ~escape_next
                          /\ \/ char = "{" /\ brace_count' = brace_count + 1
                             \/ char = "}" /\ brace_count' = brace_count - 1
                /\ spc' = "slice"
                       => /\ char = "}" /\ ~in_string /\ ~escape_next
                          /\ brace_count' = 0 /\ end_idx' = idx + 1]_vars

\* the object with the escaped quote, followed by text, has been extracted
C19_Witness ==
    /\ spc = "returned"
    /\ inputObj = EscapedQuoteObject
    /\ data_str = EscapedQuoteObject
    /\ Len(content) > end_idx


\* the marker is there and a JSON object follows it at once
Parseable(text) ==
    LET f == Find(text, start_marker)
        from == f + Len(start_marker)
    IN  /\ f # -1
        /\ \E e \in from..Len(text) : JsonDecodes(Slice(text, from, e))

\* the file holds one of the texts without marker, without a return to
\* depth 0, or with a span that is no JSON
Unparseable(f) == html[f].exists /\ html[f].content \in UnparseableContents

(***************************************************************************)
(* C20: an HTML file without the 'const data=' marker, or whose text after *)
(* the marker never returns to depth 0, or whose located span is no JSON,  *)
(* fails alone: the extraction raises, save_to_excel is not called (the    *)
(* workbook next to the file is neither created nor overwritten),          *)
(* process_html_file returns False, the file is counted as failed and the  *)
(* files after it are still processed.                                     *)
(***************************************************************************)
C20_UnparseableIsFatal ==
    tool = "html" =>
        \* these texts, and only these, have no JSON object after the marker
        \* (the files do not change: evaluated where the batch starts)
        /\ (mpc = "args" /\ ai = 1 /\ argv = PlainArgs /\ html["f1"].data = NoData)
               => \A f \in DOMAIN html :
                      html[f].exists => (Unparseable(f) <=> ~Parseable(html[f].content))
        /\ \A f \in DOMAIN html : Unparseable(f) => outbooks[f] \in {NoBook, OldBook}
        /\ (cur \in DOMAIN html /\ Unparseable(cur))
               => /\ hpc \notin {"save", "save_properties", "save_datasets", "save_close",
                                 "finish"}
                  /\ "writer" \notin open
                  /\ hpc = "extract" => spc # "returned"
                  /\ hpc = "except" => spc = "raised"
                  /\ hpc = "returned" => ret = "False"
        /\ \A i \in 1..Len(processed) :
               Unparseable(processed[i].file) => processed[i].result = "False"
        /\ failed_count >= Cardinality({ i \in 1..Len(processed) :
                                           Unparseable(processed[i].file) })
        /\ (mpc = "done" /\ files_to_process # <<>>)
               => Len(processed) = Len(files_to_process)

\* a batch has ended whose first file holds a span that is no JSON: its old
\* workbook is untouched and the second file was converted
C20_Witness ==
    /\ tool = "html"
    /\ mpc = "done"
    /\ Len(processed) = 2
    /\ html[processed[1].file].content = InvalidJsonContent
    /\ processed[1].result = "False"
    /\ outbooks[processed[1].file] = OldBook
    /\ processed[2].result = "True"
    /\ failed_count = 1


\* the report file is as it was before the call: absent, or the report of an
\* earlier run
Untouched ==
    \/ ~reports[cur].exists
    \/ /\ reports[cur].exists
       /\ Len(reports[cur].lines) = 1
       /\ reports[cur].lines[1].k = "old"

\* the call failed while loading or extracting
FailedBeforeOpen ==
    /\ ppc = "returned" /\ ret = "False"
    /\ xlsx[cur].io = "none"

(***************************************************************************)
(* C21: the report file is opened only after loading and all seven         *)
(* extractions are done: while the workbook is loaded and the metrics are  *)
(* extracted, and after a call that failed in one of these stages, the     *)
(* report file is neither created nor truncated (an earlier report is left *)
(* as it was); the file changes only when it is opened and written, and a  *)
(* partially written report comes only from a write that failed.           *)
(***************************************************************************)
C21_ExtractBeforeOpen ==
    /\ [](cur \in DOMAIN reports
            => /\ ppc \in {"start", "load", "load_loop", "extract"} => Untouched
               /\ FailedBeforeOpen => Untouched
               /\ (ppc = "returned" /\ ~Untouched /\ ret = "False")
                      => xlsx[cur].io = "write")
    /\ [][reports' # reports => ppc \in {"open", "write"}]_vars

\* a workbook that was read failed in an extraction, and the report of an
\* earlier run is still there
C21_Witness ==
    /\ FailedBeforeOpen
    /\ xlsx[cur].exists /\ ~xlsx[cur].corrupt
    /\ sheets # <<>>
    /\ reports[cur].exists
    /\ Untouched


\* the entry of a table holds a remediation line of kind k
HasRecLine(entry, k) == \E i \in 1..Len(entry) : entry[i].k = k

(***************************************************************************)
(* C22: for every table analyze_tables retains, the remediation lines of   *)
(* the report agree with the findings: the VACUUM ANALYZE line is there    *)
(* iff the table has the bloat finding, the ANALYZE line iff it has the    *)
(* stale-statistics finding, the index line iff it has the seq-scan        *)
(* finding; so every rendered table has at least one remediation line.     *)
(***************************************************************************)
C22_RecsMatchFindings ==
    ReturnedTrue
        => LET pt == metrics.problem_tables IN
           \A k \in 1..Len(pt) :
               LET entry == Entry(Written, "h3_table", k)
                   found == Range(pt[k].issues)
               IN  /\ entry # <<>>
                   /\ found # {}
                   /\ HasRecLine(entry, "rec_vacuum_analyze") = ("bloat" \in found)
                   /\ HasRecLine(entry, "rec_analyze") = ("need_analyze" \in found)
                   /\ HasRecLine(entry, "rec_create_index") = ("seq_scan" \in found)
                   /\ \E kind \in {"rec_vacuum_analyze", "rec_analyze", "rec_create_index"} :
                          HasRecLine(entry, kind)

\* a small table scanned sequentially more than 100 times, retained for its
\* dead rows only: its entry has the VACUUM ANALYZE line and no index line
C22_Witness ==
    /\ ReturnedTrue
    /\ Len(metrics.problem_tables) = 1
    /\ metrics.problem_tables[1].seq_scan = 101
    /\ metrics.problem_tables[1].live_tuples = 1000
    /\ metrics.problem_tables[1].issues = <<"bloat">>
    /\ LET entry == Entry(Written, "h3_table", 1) IN
         /\ HasRecLine(entry, "rec_vacuum_analyze")
         /\ ~HasRecLine(entry, "rec_analyze")
         /\ ~HasRecLine(entry, "rec_create_index")

====
